---- MODULE Spec2Model ----
(***************************************************************************)
(* Model of the bootable-drive provisioning pipeline of sidecar-penguin    *)
(* (src/src/modules/bootable_creator.py) as it is driven by worker threads *)
(* (src/src/main.py, WorkerThread).                                        *)
(*                                                                         *)
(* A run is one invocation of BootableCreator.create_bootable_drive on a   *)
(* worker thread.  External tools (diskpart, lsblk, umount, pkexec dd) are *)
(* black boxes: what they report is chosen nondeterministically, what they *)
(* are handed (arguments, the script file as it is when the tool starts)   *)
(* is recorded in the run's tool log.                                      *)
(*                                                                         *)
(* The device detector (src/src/modules/device_detection.py) is modelled   *)
(* beside it: get_external_devices going through what the platform's tools *)
(* report about the attached drives.                                       *)
(*                                                                         *)
(* Text is modelled as sequences: a device path is a sequence of one       *)
(* character strings, a message is the sequence of the pieces the code's   *)
(* f-string joins.                                                         *)
(***************************************************************************)
EXTENDS Integers, Sequences, FiniteSets, TLC

\* ------------------------------------------------------------------ bounds

\* Most lines the copy tool writes to its error stream in one run.
MaxDdLines == 2
\* Most partitions lsblk reports for a device.
MaxPartitions == 2

\* The most bytes a file has, and the bytes read from it at a time (the
\* code reads 4096).
MaxFileLen == 3
BlockSize == 2

\* The most chunks a download delivers (a chunk is 1 MB).
MaxChunks == 3

\* --------------------------------------------------------------- constants

\* The worker threads that may run create_bootable_drive.
Runs == {"w1", "w2"}

\* What platform.system() can return; "Other" stands for any further name.
Systems == {"Windows", "Darwin", "Linux", "Other"}

\* The external programs the code starts.
Tools == {"diskpart", "lsblk", "umount", "pkexec", "dd"}

\* The tools the strategy of a platform starts.
ToolsUsedBy(sys) ==
    CASE sys = "Windows" -> {"diskpart"}
      [] sys = "Linux"   -> {"lsblk", "umount", "pkexec", "dd"}
      [] OTHER           -> {}

Dev == <<"/", "d", "e", "v", "/">>

\* The device the host's own system is on.
SystemDevice(sys) ==
    CASE sys = "Windows" -> <<"C", ":">>
      [] sys = "Darwin"  -> Dev \o <<"d", "i", "s", "k", "0">>
      [] OTHER           -> Dev \o <<"s", "d", "a">>

\* Device paths a request may carry on each platform: two that name a
\* further device there, the system's own device, and the empty string.
DevicePathsFor(sys) ==
    {SystemDevice(sys), <<>>} \cup
    CASE sys = "Windows" -> {<<"D", ":">>, <<"E", ":", "\\">>}
      [] sys = "Darwin"  -> {Dev \o <<"d", "i", "s", "k", "2">>,
                             Dev \o <<"d", "i", "s", "k", "3">>}
      [] OTHER           -> {Dev \o <<"s", "d", "b">>, Dev \o <<"s", "d", "c">>}

\* Image paths, and the ones os.path.exists finds.
IsoPaths == {"ubuntu.iso", "large.iso", "missing.iso"}
ExistingIsos == {"ubuntu.iso", "large.iso"}

\* The size of an image file in MB.
IsoSizeMB(iso) ==
    CASE iso = "ubuntu.iso" -> 2560
      [] iso = "large.iso"  -> 5120
      [] OTHER              -> 0

\* Persistence sizes (GB) a caller may pass; the UI's spin box allows 1..128.
PersistenceSizes == {0, 4, 129}

\* A request: the arguments of create_bootable_drive.  sink says whether a
\* progress_callback was passed.
Requests(sys) ==
    [device : DevicePathsFor(sys), iso : IsoPaths,
     persistence : PersistenceSizes, sink : BOOLEAN]

\* The volumes diskpart knows and the disk each lies on.
Volumes == {<<"C">>, <<"D">>, <<"E">>}
VolumeDisk(v) ==
    CASE v = <<"C">> -> 0
      [] v = <<"D">> -> 1
      [] v = <<"E">> -> 2

\* The two fixed script paths under tempfile.gettempdir().
ScriptFiles == {"diskpart_get_disk.txt", "diskpart_script.txt"}

\* ------------------------------------------------------------------- state

VARIABLES
    system,      \* self.system, read once in __init__
    installed,   \* the tools found on the execution path
    workers,     \* the worker threads that were created
    files,       \* the temporary script files: present or not, and their lines
    req,         \* per run: the arguments of the call
    pc,          \* per run: where the call stands
    events,      \* per run: what was delivered to the progress sink, in order
    stageCalls,  \* per run: the stage dispatchers invoked, in order
    stageDone,   \* per run: the stage dispatchers that returned, in order
    toolLog,     \* per run: the external tools started, in order
    loc,         \* per run: local variables of the stage in progress
    exc,         \* per run: the exception in flight, or the one that was raised
    stageError,  \* per run: the exception a stage raised, with the stage
    outcome,     \* per run: "none", "returned" (True) or "raised"
    signal,      \* per worker thread: the operation_complete signal it emitted
    inventory,   \* what the operating system reports about the attached drives
    scan,        \* where a call of get_external_devices stands
    devices,     \* the descriptors get_external_devices has collected
    ejecting,    \* where a call of eject_device stands
    sizing,      \* a call of the size utilities: arguments and results
    isoFile,     \* the file a checksum is asked for: there or not, its bytes
    hashing,     \* where a call of calculate_checksum or verify_checksum stands
    window       \* the main window: its widgets and the worker thread it started

\* The host: what no call changes.
hostVars == <<system, installed, workers>>

\* The state of the device detector.
detectVars == <<inventory, scan, devices, ejecting, sizing>>

\* The state of the ISO handler's checksum operations.
handlerVars == <<isoFile, hashing>>

\* What no step of get_external_devices touches besides the creator's
\* state, and what no step of the bootable creator touches.
outsideDetector == <<handlerVars, window, ejecting, sizing>>
outsideCreator == <<detectVars, handlerVars, window>>

vars == <<system, installed, workers, files, req, pc, events, stageCalls,
          stageDone, toolLog, loc, exc, stageError, outcome, signal, detectVars,
          handlerVars, window>>

\* ----------------------------------------------------------------- helpers

Last(s) == s[Len(s)]

\* str.rstrip(chars): drop trailing characters that are in chars.
RECURSIVE rstrip(_, _)
rstrip(s, chars) ==
    IF s # <<>> /\ s[Len(s)] \in chars
        THEN rstrip(SubSeq(s, 1, Len(s) - 1), chars)
        ELSE s

\* An exception: its class and the pieces of its message.
NoExc == [type |-> "none", msg |-> <<>>]
Exc(t, m) == [type |-> t, msg |-> m]
NoStageError == [stage |-> "none", exc |-> NoExc]

\* What subprocess raises when the program is not on the execution path.
ToolMissing(tool) ==
    Exc("FileNotFoundError", <<"[Errno 2] No such file or directory: ", tool>>)

\* A progress event: progress_callback(percentage, message).
Event(p, m) == [pct |-> p, msg |-> m]

\* `if progress_callback: progress_callback(p, m)`: the sink's events after it.
Emit(r, p, m) == IF req[r].sink THEN Append(events[r], Event(p, m)) ELSE events[r]

\* A script file: absent, or the lines written to it.
NoFile == [present |-> FALSE, lines |-> <<>>]
FileOf(ls) == [present |-> TRUE, lines |-> ls]
Line(c, n, t) == [cmd |-> c, num |-> n, txt |-> t]

\* One started tool: the program, what it is for, the device or partition it
\* is pointed at, and the script file as it was when the program started.
ToolRun(tool, purpose, target, script) ==
    [tool |-> tool, purpose |-> purpose, target |-> target, script |-> script]

\* The local variables of a call before any stage has set them.
InitLoc ==
    [disk_number |-> -1, returncode |-> 0, stderr |-> "",
     partitions |-> <<>>, unread |-> <<>>, written |-> <<>>, skipped |-> <<>>,
     list_status |-> 0, unmount_status |-> <<>>, strategy |-> <<>>,
     previous |-> "none"]

\* The operation_complete signal of a worker thread: not emitted yet, or
\* emitted with (success, message).
NoSignal == [sent |-> FALSE, ok |-> FALSE, msg |-> <<>>]
Signal(ok, m) == [sent |-> TRUE, ok |-> ok, msg |-> m]

\* The name a platform goes by in the stage messages.
PlatformName(sys) == IF sys = "Darwin" THEN "macOS" ELSE sys

\* The sequential layout of create_bootable_drive: the stages in order.
StageOrder == <<"prepare", "write", "persistence", "bootloader">>

\* --------------------------------------------------------- initial states

\* The call a worker thread that was never created would make: never made.
IdleRequest(sys) ==
    [device |-> <<>>, iso |-> "ubuntu.iso", persistence |-> 4, sink |-> TRUE]

\* The environments: the platform, and which of the tools its strategy
\* starts are on the execution path.
Environment ==
    /\ system \in Systems
    /\ installed \in {Tools \ m : m \in SUBSET ToolsUsedBy(system)}
    /\ files = [f \in ScriptFiles |-> NoFile]

\* The device detector while no listing is asked for.
NoInventory == [platform |-> "none", entries |-> <<>>]
ScanIdle == [pc |-> "idle", todo |-> <<>>, error |-> "none"]
EjectIdle == [pc |-> "idle", device_path |-> <<>>, started |-> <<>>, result |-> "none"]
SizingIdle == [size_bytes |-> 0, formatted |-> <<>>, size_str |-> <<>>,
               pc |-> "idle", parsed |-> 0]
DetectorIdle ==
    /\ inventory = NoInventory
    /\ scan = ScanIdle
    /\ devices = <<>>
    /\ ejecting = EjectIdle
    /\ sizing = SizingIdle

\* A file: whether it is there, and its bytes.
NoIsoFile == [exists |-> FALSE, bytes |-> <<>>]

\* The ISO handler before any call of its checksum operations.
HashingIdle ==
    [pc |-> "idle", op |-> "none", given |-> <<>>, expected_checksum |-> <<>>,
     sha256_hash |-> 0, pos |-> 0, checksum |-> <<>>, match |-> FALSE,
     computed |-> {}]

HandlerIdle ==
    /\ isoFile = NoIsoFile
    /\ hashing = HashingIdle

\* The worker threads the main window may have running at a time.
Threads == {1, 2}

\* A worker thread of the main window: none yet.  pcts is what a download
\* has delivered to its progress_callback, returned what the operation
\* returned.
NoThread ==
    [op |-> "none", pc |-> "none", url |-> <<>>, path |-> <<>>,
     expected |-> <<>>, opened |-> FALSE, total_size |-> 0, downloaded |-> 0,
     pcts |-> <<>>, returned |-> <<>>, exc |-> NoExc, signal |-> NoSignal]

\* The main window before any of its handlers has run: its widgets as
\* init_ui leaves them, no device listed, no file saved, nothing downloaded.
\* box is the message box shown last, slot_error the exception a slot has
\* raised, slots the threads that may run, download what the last download
\* task returned and whether its result was handled as a success.
WindowIdle ==
    [iso_url_edit |-> <<>>, iso_path_edit |-> <<>>, checksum_edit |-> <<>>,
     status_label |-> <<"Ready">>, progress_bar |-> 0, device_count |-> 0,
     create_button |-> TRUE, refresh_button |-> TRUE, browse_button |-> TRUE,
     download_button |-> TRUE, verify_button |-> TRUE, eject_button |-> FALSE,
     box |-> <<>>, slot_error |-> NoExc,
     threads |-> [t \in Threads |-> NoThread], slots |-> {1},
     saved |-> {},
     download |-> [returned |-> <<>>, succeeded |-> FALSE]]

\* Every run before its call.
RunsIdle ==
    /\ pc = [r \in Runs |-> "idle"]
    /\ events = [r \in Runs |-> <<>>]
    /\ stageCalls = [r \in Runs |-> <<>>]
    /\ stageDone = [r \in Runs |-> <<>>]
    /\ toolLog = [r \in Runs |-> <<>>]
    /\ loc = [r \in Runs |-> InitLoc]
    /\ exc = [r \in Runs |-> NoExc]
    /\ stageError = [r \in Runs |-> NoStageError]
    /\ outcome = [r \in Runs |-> "none"]
    /\ signal = [r \in Runs |-> NoSignal]

\* One worker thread, created with any request (main.py: create_task).
Init ==
    /\ Environment
    /\ workers = {"w1"}
    /\ req \in {[r \in Runs |-> IF r = "w1" THEN q ELSE IdleRequest(system)] :
                    q \in Requests(system)}
    /\ RunsIdle
    /\ DetectorIdle
    /\ HandlerIdle
    /\ window = WindowIdle

\* The requests of the concurrent runs: they differ in the device path only.
ConcRequests(sys) ==
    {q \in Requests(sys) : q.iso = "ubuntu.iso" /\ q.persistence = 4 /\ q.sink}

\* Two worker threads on one BootableCreator, on a Windows host.
InitConc ==
    /\ Environment
    /\ system = "Windows"
    /\ workers = Runs
    /\ req \in [Runs -> ConcRequests(system)]
    /\ RunsIdle
    /\ DetectorIdle
    /\ HandlerIdle
    /\ window = WindowIdle

\* ------------------------------------------------- create_bootable_drive

\* The percentage of the event that opens a stage.
StagePct(stage) ==
    CASE stage = "prepare"     -> 5
      [] stage = "write"       -> 30
      [] stage = "persistence" -> 70
      [] stage = "bootloader"  -> 90

StageMsg(stage) ==
    CASE stage = "prepare"     -> <<"Preparing drive...">>
      [] stage = "write"       -> <<"Writing ISO to drive...">>
      [] stage = "persistence" -> <<"Setting up persistence...">>
      [] stage = "bootloader"  -> <<"Installing bootloader...">>

\* Where the call stands while it is about to open a stage.
StepLabel(stage) ==
    CASE stage = "prepare"     -> "step_prepare"
      [] stage = "write"       -> "step_write"
      [] stage = "persistence" -> "step_persistence"
      [] stage = "bootloader"  -> "step_bootloader"

\* A pipeline that goes from Prepare straight to Configure Persistence.
StepAfterSkippingWrite(stage) ==
    CASE stage = "prepare"     -> "step_persistence"
      [] stage = "write"       -> "step_persistence"
      [] stage = "persistence" -> "step_bootloader"
      [] stage = "bootloader"  -> "finish"

\* The statement that follows a stage's return in create_bootable_drive.
StepAfter(stage) ==
    CASE stage = "prepare"     -> "step_write"
      [] stage = "write"       -> "step_persistence"
      [] stage = "persistence" -> "step_bootloader"
      [] stage = "bootloader"  -> "finish"

\* Where a stage's dispatcher goes on a platform that has a strategy.
BodyLabel(stage, sys) ==
    CASE stage = "prepare" /\ sys = "Windows" -> "get_windows_disk_number"
      [] stage = "prepare" /\ sys = "Darwin"  -> "prepare_drive_macos"
      [] stage = "prepare" /\ sys = "Linux"   -> "get_linux_partitions"
      [] stage = "write"   /\ sys = "Linux"   -> "write_iso_linux"
      [] stage = "write"   /\ sys # "Linux"   -> "write_iso_placeholder"
      [] stage = "persistence"                -> "setup_persistence"
      [] stage = "bootloader"                 -> "install_bootloader"

\* A validation that lets every request through.
InputsValidUnchecked(q) == TRUE

\* `os.path.exists(iso_path)`: the one check made before the stages.
InputsValid(q) == q.iso \in ExistingIsos

\* A stage returns: the call goes on with the statement after it.
StageReturns(r, stage) ==
    /\ stageDone' = [stageDone EXCEPT ![r] = Append(@, stage)]
    /\ pc' = [pc EXCEPT ![r] = StepAfter(stage)]
    /\ UNCHANGED <<exc, stageError, outcome>>

\* A stage raises e: control passes to the except clause of the call.
StageRaises(r, stage, e) ==
    /\ exc' = [exc EXCEPT ![r] = e]
    /\ stageError' = [stageError EXCEPT ![r] = [stage |-> stage, exc |-> e]]
    /\ pc' = [pc EXCEPT ![r] = "except"]
    /\ UNCHANGED <<stageDone, outcome>>

\* A call that takes up a failed run again at the stage that failed.
CallResumingFailedStage(r) ==
    /\ r \in workers
    /\ pc[r] = "idle" \/ (pc[r] \in {"returned", "raised"} /\ signal[r].sent)
    /\ pc' = [pc EXCEPT ![r] =
            IF stageError[r].stage \in {"write", "persistence", "bootloader"}
                THEN StepLabel(stageError[r].stage)
                ELSE "validating"]
    /\ events' = [events EXCEPT ![r] = <<>>]
    /\ stageCalls' = [stageCalls EXCEPT ![r] = <<>>]
    /\ stageDone' = [stageDone EXCEPT ![r] = <<>>]
    /\ toolLog' = [toolLog EXCEPT ![r] = <<>>]
    /\ loc' = [loc EXCEPT ![r] = [InitLoc EXCEPT !.previous = outcome[r]]]
    /\ exc' = [exc EXCEPT ![r] = NoExc]
    /\ stageError' = [stageError EXCEPT ![r] = NoStageError]
    /\ outcome' = [outcome EXCEPT ![r] = "none"]
    /\ signal' = [signal EXCEPT ![r] = NoSignal]
    /\ UNCHANGED <<outsideCreator, hostVars, files, req>>

\* A worker thread calls create_bootable_drive; every call starts afresh.
\* previous records how the call before it on this worker ended.
\* The thread that makes a further call is a new one, started after the
\* one before it has emitted its signal.
Call(r) ==
    /\ r \in workers
    /\ pc[r] = "idle" \/ (pc[r] \in {"returned", "raised"} /\ signal[r].sent)
    /\ pc' = [pc EXCEPT ![r] = "validating"]
    /\ events' = [events EXCEPT ![r] = <<>>]
    /\ stageCalls' = [stageCalls EXCEPT ![r] = <<>>]
    /\ stageDone' = [stageDone EXCEPT ![r] = <<>>]
    /\ toolLog' = [toolLog EXCEPT ![r] = <<>>]
    /\ loc' = [loc EXCEPT ![r] = [InitLoc EXCEPT !.previous = outcome[r]]]
    /\ exc' = [exc EXCEPT ![r] = NoExc]
    /\ stageError' = [stageError EXCEPT ![r] = NoStageError]
    /\ outcome' = [outcome EXCEPT ![r] = "none"]
    /\ signal' = [signal EXCEPT ![r] = NoSignal]
    /\ UNCHANGED <<outsideCreator, hostVars, files, req>>

\* "# Validate inputs": a missing image raises before the try block.
Validate(r) ==
    /\ pc[r] = "validating"
    /\ IF InputsValid(req[r])
         THEN /\ pc' = [pc EXCEPT ![r] = "begin"]
              /\ UNCHANGED <<exc, outcome>>
         ELSE /\ exc' = [exc EXCEPT ![r] =
                    Exc("FileNotFoundError", <<"ISO file not found: ", req[r].iso>>)]
              /\ outcome' = [outcome EXCEPT ![r] = "raised"]
              /\ pc' = [pc EXCEPT ![r] = "raised"]
    /\ UNCHANGED <<outsideCreator, hostVars, signal, files, req, events, stageCalls,
                   stageDone, toolLog, loc, stageError>>

StartPct == 0

\* progress_callback(0, "Starting bootable drive creation...").
EmitStart(r) ==
    /\ pc[r] = "begin"
    /\ events' = [events EXCEPT ![r] =
            Emit(r, StartPct, <<"Starting bootable drive creation...">>)]
    /\ pc' = [pc EXCEPT ![r] = StepLabel(StageOrder[1])]
    /\ UNCHANGED <<outsideCreator, hostVars, signal, files, req, stageCalls, stageDone,
                   toolLog, loc, exc, stageError, outcome>>

\* A dispatcher whose last branch is the Linux strategy instead of a raise.
BeginStageFallingBackToLinux(r, stage) ==
    /\ pc[r] = StepLabel(stage)
    /\ events' = [events EXCEPT ![r] = Emit(r, StagePct(stage), StageMsg(stage))]
    /\ stageCalls' = [stageCalls EXCEPT ![r] = Append(@, stage)]
    /\ LET sys == IF system \in {"Windows", "Darwin"} THEN system ELSE "Linux"
       IN  /\ pc' = [pc EXCEPT ![r] = BodyLabel(stage, sys)]
           /\ loc' = [loc EXCEPT ![r].strategy = Append(@, sys)]
    /\ UNCHANGED <<outsideCreator, hostVars, signal, files, req, toolLog,
                   exc, stageError, stageDone, outcome>>

\* A dispatcher that asks for the platform anew at every stage and goes by
\* whatever answer it gets.
BeginStageAskingAgain(r, stage) ==
    /\ pc[r] = StepLabel(stage)
    /\ events' = [events EXCEPT ![r] = Emit(r, StagePct(stage), StageMsg(stage))]
    /\ stageCalls' = [stageCalls EXCEPT ![r] = Append(@, stage)]
    /\ \E sys \in {"Windows", "Darwin", "Linux"} :
        /\ pc' = [pc EXCEPT ![r] = BodyLabel(stage, sys)]
        /\ loc' = [loc EXCEPT ![r].strategy = Append(@, sys)]
    /\ UNCHANGED <<outsideCreator, hostVars, signal, files, req, toolLog,
                   exc, stageError, stageDone, outcome>>

\* Step n of the try block: the stage's opening event, then its dispatcher
\* (_prepare_drive, _write_iso, _setup_persistence, _install_bootloader),
\* which goes by self.system and raises on a platform it does not know.
\* strategy records the platform whose implementation each stage went to.
BeginStage(r, stage) ==
    /\ pc[r] = StepLabel(stage)
    /\ events' = [events EXCEPT ![r] = Emit(r, StagePct(stage), StageMsg(stage))]
    /\ stageCalls' = [stageCalls EXCEPT ![r] = Append(@, stage)]
    /\ IF system \in {"Windows", "Darwin", "Linux"}
         THEN /\ pc' = [pc EXCEPT ![r] = BodyLabel(stage, system)]
              /\ loc' = [loc EXCEPT ![r].strategy = Append(@, system)]
              /\ UNCHANGED <<exc, stageError, stageDone, outcome>>
         ELSE /\ StageRaises(r, stage,
                      Exc("NotImplementedError",
                          <<"Unsupported operating system: ", system>>))
              /\ UNCHANGED loc
    /\ UNCHANGED <<outsideCreator, hostVars, signal, files, req, toolLog>>

FinalPct == 100

\* "# Final progress update" and `return True`.
Finish(r) ==
    /\ pc[r] = "finish"
    /\ events' = [events EXCEPT ![r] =
            Emit(r, FinalPct, <<"Bootable drive created successfully!">>)]
    /\ outcome' = [outcome EXCEPT ![r] = "returned"]
    /\ pc' = [pc EXCEPT ![r] = "returned"]
    /\ UNCHANGED <<outsideCreator, hostVars, signal, files, req, stageCalls, stageDone,
                   toolLog, loc, exc, stageError>>

ErrorPct == 0

\* An except clause that swallows the exception and goes on with the
\* statement after the stage that raised.
HandleExceptionAndGoOn(r) ==
    /\ pc[r] = "except"
    /\ pc' = [pc EXCEPT ![r] = StepAfter(stageError[r].stage)]
    /\ UNCHANGED <<outsideCreator, hostVars, signal, files, req, events, stageCalls,
                   stageDone, toolLog, loc, exc, stageError, outcome>>

\* `except Exception as e`: the error event, then the exception is re-raised.
HandleException(r) ==
    /\ pc[r] = "except"
    /\ events' = [events EXCEPT ![r] = Emit(r, ErrorPct, <<"Error: ">> \o exc[r].msg)]
    /\ outcome' = [outcome EXCEPT ![r] = "raised"]
    /\ pc' = [pc EXCEPT ![r] = "raised"]
    /\ UNCHANGED <<outsideCreator, hostVars, signal, files, req, stageCalls, stageDone,
                   toolLog, loc, exc, stageError>>

\* A worker thread that reports success whatever the operation did.
WorkerCompleteSwallowing(r) ==
    /\ pc[r] \in {"returned", "raised"}
    /\ ~signal[r].sent
    /\ signal' = [signal EXCEPT ![r] =
            Signal(TRUE, <<"Operation completed successfully">>)]
    /\ UNCHANGED <<outsideCreator, hostVars, files, req, pc, events, stageCalls,
                   stageDone, toolLog, loc, exc, stageError, outcome>>

\* WorkerThread.run after the operation: operation_complete is emitted with
\* (True, "Operation completed successfully") when the call returned and with
\* (False, str(e)) when it raised.
WorkerComplete(r) ==
    /\ pc[r] \in {"returned", "raised"}
    /\ ~signal[r].sent
    /\ signal' = [signal EXCEPT ![r] =
            IF outcome[r] = "returned"
                THEN Signal(TRUE, <<"Operation completed successfully">>)
                ELSE Signal(FALSE, exc[r].msg)]
    /\ UNCHANGED <<outsideCreator, hostVars, files, req, pc, events, stageCalls,
                   stageDone, toolLog, loc, exc, stageError, outcome>>

\* ------------------------------------------------------ Windows: Prepare

BootPartitionMB == 4096
MBPerGB == 1024

\* `drive_path.rstrip(":\\")`: the drive letter of a drive path.
DriveLetter(drive_path) == rstrip(drive_path, {":", "\\"})

\* The script _get_windows_disk_number writes for a drive path.
LookupScript(drive_path) ==
    <<Line("select volume", 0, DriveLetter(drive_path)),
      Line("detail disk", 0, <<>>),
      Line("exit", 0, <<>>)>>

\* The script _prepare_drive_windows writes.
PrepareScript(disk_number, persistence_size) ==
    <<Line("select disk", disk_number, <<>>),
      Line("clean", 0, <<>>),
      Line("convert mbr", 0, <<>>),
      Line("create partition primary size=", BootPartitionMB, <<>>),
      Line("format quick fs=fat32 label=", 0, <<"LINUX_BOOT">>),
      Line("active", 0, <<>>),
      Line("create partition primary size=", persistence_size * MBPerGB, <<>>),
      Line("format quick fs=ntfs label=", 0, <<"PERSISTENCE">>),
      Line("create partition primary", 0, <<>>),
      Line("format quick fs=ntfs label=", 0, <<"DATA">>),
      Line("assign", 0, <<>>),
      Line("exit", 0, <<>>)>>

\* diskpart /s on the lookup script: the numbers N for which its output may
\* hold "Disk N" (-1: no such text).  It reads the file as it is when it
\* starts; the query of a known volume may still fail.
DiskpartShows(file) ==
    IF /\ file.present
       /\ file.lines # <<>>
       /\ file.lines[1].cmd = "select volume"
       /\ file.lines[1].txt \in Volumes
        THEN {VolumeDisk(file.lines[1].txt), -1}
        ELSE {-1}

\* diskpart /s on a script: its exit statuses.  Without the file it fails.
DiskpartExits(file) == IF file.present THEN {0, 1} ELSE {1}

DiskpartDiag == "DiskPart has encountered an error."

\* _get_windows_disk_number, `with open(script_path, "w")`.
WriteLookupScript(r) ==
    /\ pc[r] = "get_windows_disk_number"
    /\ files' = [files EXCEPT !["diskpart_get_disk.txt"] =
                    FileOf(LookupScript(req[r].device))]
    /\ pc' = [pc EXCEPT ![r] = "lookup_run"]
    /\ UNCHANGED <<outsideCreator, hostVars, signal, req, events, stageCalls, stageDone,
                   toolLog, loc, exc, stageError, outcome>>

\* _get_windows_disk_number, subprocess.run and the search for "Disk (\d+)".
RunLookup(r) ==
    /\ pc[r] = "lookup_run"
    /\ IF "diskpart" \notin installed
         THEN /\ exc' = [exc EXCEPT ![r] = ToolMissing("diskpart")]
              /\ UNCHANGED <<toolLog, loc>>
         ELSE /\ toolLog' = [toolLog EXCEPT ![r] =
                    Append(@, ToolRun("diskpart", "lookup", req[r].device,
                                      files["diskpart_get_disk.txt"]))]
              /\ \E n \in DiskpartShows(files["diskpart_get_disk.txt"]) :
                    IF n >= 0
                      THEN /\ loc' = [loc EXCEPT ![r].disk_number = n]
                           /\ UNCHANGED exc
                      ELSE /\ exc' = [exc EXCEPT ![r] =
                                Exc("RuntimeError",
                                    <<"Could not determine disk number for ">>
                                        \o req[r].device)]
                           /\ UNCHANGED loc
    /\ pc' = [pc EXCEPT ![r] = "lookup_cleanup"]
    /\ UNCHANGED <<outsideCreator, hostVars, signal, files, req, events, stageCalls,
                   stageDone, stageError, outcome>>

\* _get_windows_disk_number, `finally: os.remove(script_path)`, then the
\* return of the number or the exception in flight.
CleanupLookup(r) ==
    /\ pc[r] = "lookup_cleanup"
    /\ files' = [files EXCEPT !["diskpart_get_disk.txt"] = NoFile]
    /\ IF exc[r] = NoExc
         THEN /\ pc' = [pc EXCEPT ![r] = "prepare_drive_windows"]
              /\ UNCHANGED <<exc, stageError, stageDone, outcome>>
         ELSE StageRaises(r, "prepare", exc[r])
    /\ UNCHANGED <<outsideCreator, hostVars, signal, req, events, stageCalls, toolLog, loc>>

\* _prepare_drive_windows, `with open(script_path, "w")`.
WritePrepareScript(r) ==
    /\ pc[r] = "prepare_drive_windows"
    /\ files' = [files EXCEPT !["diskpart_script.txt"] =
                    FileOf(PrepareScript(loc[r].disk_number, req[r].persistence))]
    /\ pc' = [pc EXCEPT ![r] = "prepare_emit"]
    /\ UNCHANGED <<outsideCreator, hostVars, signal, req, events, stageCalls, stageDone,
                   toolLog, loc, exc, stageError, outcome>>

FormattingPct == 10

\* _prepare_drive_windows, progress_callback(10, "Formatting drive...").
EmitFormatting(r) ==
    /\ pc[r] = "prepare_emit"
    /\ events' = [events EXCEPT ![r] = Emit(r, FormattingPct, <<"Formatting drive...">>)]
    /\ pc' = [pc EXCEPT ![r] = "prepare_run"]
    /\ UNCHANGED <<outsideCreator, hostVars, signal, files, req, stageCalls, stageDone,
                   toolLog, loc, exc, stageError, outcome>>

\* _prepare_drive_windows, subprocess.run(["diskpart", "/s", script_path])
\* and the check of its return code.
RunPrepare(r) ==
    /\ pc[r] = "prepare_run"
    /\ IF "diskpart" \notin installed
         THEN /\ exc' = [exc EXCEPT ![r] = ToolMissing("diskpart")]
              /\ UNCHANGED <<toolLog, loc>>
         ELSE /\ toolLog' = [toolLog EXCEPT ![r] =
                    Append(@, ToolRun("diskpart", "prepare", req[r].device,
                                      files["diskpart_script.txt"]))]
              /\ \E rc \in DiskpartExits(files["diskpart_script.txt"]) :
                    /\ loc' = [loc EXCEPT ![r].returncode = rc,
                                          ![r].stderr = IF rc = 0 THEN "" ELSE DiskpartDiag]
                    /\ exc' = [exc EXCEPT ![r] =
                            IF rc = 0 THEN NoExc
                            ELSE Exc("RuntimeError",
                                     <<"Failed to prepare drive: ", DiskpartDiag>>)]
    /\ pc' = [pc EXCEPT ![r] = "prepare_cleanup"]
    /\ UNCHANGED <<outsideCreator, hostVars, signal, files, req, events, stageCalls,
                   stageDone, stageError, outcome>>

\* A clean-up placed after the check of the return code instead of in a
\* finally clause: it is reached only when diskpart succeeded.
CleanupPrepareOnSuccess(r) ==
    /\ pc[r] = "prepare_cleanup"
    /\ files' = IF exc[r] = NoExc
                  THEN [files EXCEPT !["diskpart_script.txt"] = NoFile]
                  ELSE files
    /\ IF exc[r] = NoExc
         THEN StageReturns(r, "prepare")
         ELSE StageRaises(r, "prepare", exc[r])
    /\ UNCHANGED <<outsideCreator, hostVars, signal, req, events, stageCalls, toolLog, loc>>

\* _prepare_drive_windows, `finally: os.remove(script_path)`, then the
\* return or the exception in flight.
CleanupPrepare(r) ==
    /\ pc[r] = "prepare_cleanup"
    /\ files' = [files EXCEPT !["diskpart_script.txt"] = NoFile]
    /\ IF exc[r] = NoExc
         THEN StageReturns(r, "prepare")
         ELSE StageRaises(r, "prepare", exc[r])
    /\ UNCHANGED <<outsideCreator, hostVars, signal, req, events, stageCalls, toolLog, loc>>

\* -------------------------------------------------------- macOS: Prepare

PrepareMacosPct == 15

\* _prepare_drive_macos: a placeholder that reports and returns.
PrepareDriveMacos(r) ==
    /\ pc[r] = "prepare_drive_macos"
    /\ events' = [events EXCEPT ![r] =
            Emit(r, PrepareMacosPct, <<"Formatting drive on macOS...">>)]
    /\ StageReturns(r, "prepare")
    /\ UNCHANGED <<outsideCreator, hostVars, signal, files, req, stageCalls, toolLog, loc>>

\* -------------------------------------------------------- Linux: Prepare

\* What lsblk -no NAME prints when it exits with status zero: the device's
\* own line, then one line per partition.
LsblkOutputs == {<<"dev">> \o [i \in 1..k |-> "part"] : k \in 0..MaxPartitions}

\* _get_linux_partitions: lines[1:] of the output, each made a path.
PartitionsOf(lines) == [i \in 1..(Len(lines) - 1) |-> <<"/dev/", lines[i + 1]>>]

\* The exit statuses of a tool: 0, or one that reports failure.
ExitStatuses == {0, 1}

\* A listing of the partitions that raises what check=True raises on a
\* status other than 0 out of the stage.
GetLinuxPartitionsFailingOnStatus(r) ==
    /\ pc[r] = "get_linux_partitions"
    /\ IF "lsblk" \notin installed
         THEN /\ StageRaises(r, "prepare", ToolMissing("lsblk"))
              /\ UNCHANGED <<toolLog, loc>>
         ELSE /\ toolLog' = [toolLog EXCEPT ![r] =
                    Append(@, ToolRun("lsblk", "list", req[r].device, NoFile))]
              /\ \/ /\ loc' = [loc EXCEPT ![r].partitions = <<>>,
                                           ![r].list_status = 1]
                    /\ StageRaises(r, "prepare",
                            Exc("CalledProcessError",
                                <<"Command lsblk returned non-zero exit status 1.">>))
                 \/ /\ \E out \in LsblkOutputs :
                            loc' = [loc EXCEPT ![r].partitions = PartitionsOf(out),
                                               ![r].list_status = 0]
                    /\ pc' = [pc EXCEPT ![r] = "unmount_all_partitions"]
                    /\ UNCHANGED <<exc, stageError, stageDone, outcome>>
    /\ UNCHANGED <<outsideCreator, hostVars, signal, files, req, events, stageCalls>>

\* _unmount_all_partitions, its call of _get_linux_partitions: a missing
\* lsblk raises, an lsblk that exits with a status other than 0 gives no
\* partitions (CalledProcessError is caught and [] returned).
GetLinuxPartitions(r) ==
    /\ pc[r] = "get_linux_partitions"
    /\ IF "lsblk" \notin installed
         THEN /\ StageRaises(r, "prepare", ToolMissing("lsblk"))
              /\ UNCHANGED <<toolLog, loc>>
         ELSE /\ toolLog' = [toolLog EXCEPT ![r] =
                    Append(@, ToolRun("lsblk", "list", req[r].device, NoFile))]
              /\ \/ loc' = [loc EXCEPT ![r].partitions = <<>>,
                                        ![r].list_status = 1]
                 \/ \E out \in LsblkOutputs :
                        loc' = [loc EXCEPT ![r].partitions = PartitionsOf(out),
                                           ![r].list_status = 0]
              /\ pc' = [pc EXCEPT ![r] = "unmount_all_partitions"]
              /\ UNCHANGED <<exc, stageError, stageDone, outcome>>
    /\ UNCHANGED <<outsideCreator, hostVars, signal, files, req, events, stageCalls>>

\* _unmount_all_partitions, one turn of its loop: _unmount_partition
\* swallows whatever umount does, a missing umount included, and never
\* looks at the status umount exits with.  skipped records the tools whose
\* start failed and was passed over, unmount_status the statuses of the
\* umount runs.
UnmountPartition(r) ==
    /\ pc[r] = "unmount_all_partitions"
    /\ loc[r].partitions # <<>>
    /\ toolLog' = [toolLog EXCEPT ![r] =
            IF "umount" \in installed
                THEN Append(@, ToolRun("umount", "unmount", Head(loc[r].partitions), NoFile))
                ELSE @]
    /\ \E status \in ExitStatuses :
        loc' = [loc EXCEPT ![r].partitions = Tail(@),
                           ![r].skipped = IF "umount" \in installed
                                              THEN @
                                              ELSE Append(@, "umount"),
                           ![r].unmount_status = IF "umount" \in installed
                                                     THEN Append(@, status)
                                                     ELSE @]
    /\ UNCHANGED <<outsideCreator, hostVars, signal, files, req, pc, events, stageCalls,
                   stageDone, exc, stageError, outcome>>

PrepareLinuxPct == 15

\* _prepare_drive_linux after the unmounting: a placeholder that reports.
PrepareDriveLinux(r) ==
    /\ pc[r] = "unmount_all_partitions"
    /\ loc[r].partitions = <<>>
    /\ events' = [events EXCEPT ![r] =
            Emit(r, PrepareLinuxPct, <<"Formatting drive on Linux...">>)]
    /\ StageReturns(r, "prepare")
    /\ UNCHANGED <<outsideCreator, hostVars, signal, files, req, stageCalls, toolLog, loc>>

\* ------------------------------------------------------------ Write Image

WritePlaceholderPctBelowBand == 40 - 20

WritePlaceholderPct == 40

\* _write_iso_windows, _write_iso_macos: placeholders that report and return.
WriteIsoPlaceholder(r) ==
    /\ pc[r] = "write_iso_placeholder"
    /\ events' = [events EXCEPT ![r] =
            Emit(r, WritePlaceholderPct,
                 <<"Writing ISO on ", PlatformName(system), "...">>)]
    /\ StageReturns(r, "write")
    /\ UNCHANGED <<outsideCreator, hostVars, signal, files, req, stageCalls, toolLog, loc>>

\* _write_iso_linux, the two shutil.which checks.
CheckCopyTools(r) ==
    /\ pc[r] = "write_iso_linux"
    /\ IF "pkexec" \notin installed
         THEN StageRaises(r, "write",
                  Exc("OSError",
                      <<"pkexec is not installed. Please install it to continue.">>))
         ELSE IF "dd" \notin installed
         THEN StageRaises(r, "write",
                  Exc("OSError",
                      <<"dd is not installed. Please install it to continue.">>))
         ELSE /\ pc' = [pc EXCEPT ![r] = "popen"]
              /\ UNCHANGED <<exc, stageError, stageDone, outcome>>
    /\ UNCHANGED <<outsideCreator, hostVars, signal, files, req, events, stageCalls,
                   toolLog, loc>>

\* _write_iso_linux, subprocess.Popen(["pkexec", "dd", ...]).
StartCopy(r) ==
    /\ pc[r] = "popen"
    /\ toolLog' = [toolLog EXCEPT ![r] =
            Append(@, ToolRun("pkexec", "copy", req[r].device, NoFile))]
    /\ loc' = [loc EXCEPT ![r].written = <<>>, ![r].unread = <<>>]
    /\ pc' = [pc EXCEPT ![r] = "read_stderr"]
    /\ UNCHANGED <<outsideCreator, hostVars, signal, files, req, events, stageCalls,
                   stageDone, exc, stageError, outcome>>

\* The lines the copy tool writes to its error stream: a progress report
\* ("... bytes copied ...") or anything else.
DdLines == {"copied", "diagnostic"}

DdProgressPctAboveBand == 50 + 30

DdProgressPct == 50

\* The copy tool writes a line to its error stream; the line waits in the
\* pipe until readline takes it.
DdWrites(r) ==
    /\ pc[r] = "read_stderr"
    /\ Len(loc[r].written) < MaxDdLines
    /\ \E line \in DdLines :
        loc' = [loc EXCEPT ![r].written = Append(@, line),
                           ![r].unread = Append(@, line)]
    /\ UNCHANGED <<outsideCreator, hostVars, signal, files, req, pc, events, stageCalls,
                   stageDone, toolLog, exc, stageError, outcome>>

\* _write_iso_linux, one turn of `for line in iter(process.stderr.readline, '')`:
\* readline takes the next line out of the pipe; a report is forwarded at a
\* fixed percentage, any other line is only logged.
ReadStderrLine(r) ==
    /\ pc[r] = "read_stderr"
    /\ loc[r].unread # <<>>
    /\ loc' = [loc EXCEPT ![r].unread = Tail(@)]
    /\ events' = [events EXCEPT ![r] =
            IF Head(loc[r].unread) = "copied"
                THEN Emit(r, DdProgressPct, <<"Writing ISO...">>)
                ELSE @]
    /\ UNCHANGED <<outsideCreator, hostVars, signal, files, req, pc, stageCalls, stageDone,
                   toolLog, exc, stageError, outcome>>

DdDonePct == 70

\* A wait that reports completion whatever status the copy tool exits with.
WaitCopyIgnoringStatus(r) ==
    /\ pc[r] = "read_stderr"
    /\ loc[r].unread = <<>>
    /\ \E rc \in {0, 1} :
        /\ loc' = [loc EXCEPT ![r].returncode = rc]
        /\ events' = [events EXCEPT ![r] =
                Emit(r, DdDonePct, <<"ISO written successfully">>)]
        /\ StageReturns(r, "write")
    /\ UNCHANGED <<outsideCreator, hostVars, signal, files, req, stageCalls, toolLog>>

\* _write_iso_linux once readline meets the end of the stream (the tool has
\* closed it and every line was taken): process.wait(), the check of the
\* return code (the message takes what process.stderr.read() still finds in
\* the stream), and the completion event.
WaitCopy(r) ==
    /\ pc[r] = "read_stderr"
    /\ loc[r].unread = <<>>
    /\ \E rc \in {0, 1} :
        /\ loc' = [loc EXCEPT ![r].returncode = rc]
        /\ IF rc # 0
             THEN /\ StageRaises(r, "write",
                        Exc("RuntimeError",
                            <<"Failed to write ISO to drive: ">> \o loc[r].unread))
                  /\ UNCHANGED events
             ELSE /\ events' = [events EXCEPT ![r] =
                        Emit(r, DdDonePct, <<"ISO written successfully">>)]
                  /\ StageReturns(r, "write")
    /\ UNCHANGED <<outsideCreator, hostVars, signal, files, req, stageCalls, toolLog>>

\* ------------------------------------------ Configure Persistence, Bootloader

\* A persistence placeholder that reports inside the bootloader's band.
PersistencePctAboveBand == 75 + 20

PersistencePct == 75

\* _setup_persistence_windows, _macos, _linux: placeholders that report.
SetupPersistence(r) ==
    /\ pc[r] = "setup_persistence"
    /\ events' = [events EXCEPT ![r] =
            Emit(r, PersistencePct,
                 <<"Setting up persistence on ", PlatformName(system), "...">>)]
    /\ StageReturns(r, "persistence")
    /\ UNCHANGED <<outsideCreator, hostVars, signal, files, req, stageCalls, toolLog, loc>>

\* A bootloader placeholder that reports the run as complete.
BootloaderPctFull == 95 + 5

BootloaderPct == 95

\* _install_bootloader_windows, _macos, _linux: placeholders that report.
InstallBootloader(r) ==
    /\ pc[r] = "install_bootloader"
    /\ events' = [events EXCEPT ![r] =
            Emit(r, BootloaderPct,
                 <<"Installing bootloader on ", PlatformName(system), "...">>)]
    /\ StageReturns(r, "bootloader")
    /\ UNCHANGED <<outsideCreator, hostVars, signal, files, req, stageCalls, toolLog, loc>>

\* ---------------------------------------------------------- specification

\* The steps of create_bootable_drive itself, and the stage bodies that are
\* the same on every platform.
PipelineStep(r) ==
    \/ Call(r)
    \/ Validate(r)
    \/ EmitStart(r)
    \/ BeginStage(r, "prepare")
    \/ BeginStage(r, "write")
    \/ BeginStage(r, "persistence")
    \/ BeginStage(r, "bootloader")
    \/ SetupPersistence(r)
    \/ InstallBootloader(r)
    \/ Finish(r)
    \/ HandleException(r)
    \/ WorkerComplete(r)

\* The steps of the Windows strategy.
WindowsStep(r) ==
    \/ WriteLookupScript(r)
    \/ RunLookup(r)
    \/ CleanupLookup(r)
    \/ WritePrepareScript(r)
    \/ EmitFormatting(r)
    \/ RunPrepare(r)
    \/ CleanupPrepare(r)
    \/ WriteIsoPlaceholder(r)

\* The steps of the macOS and Linux strategies.
UnixStep(r) ==
    \/ PrepareDriveMacos(r)
    \/ GetLinuxPartitions(r)
    \/ UnmountPartition(r)
    \/ PrepareDriveLinux(r)
    \/ CheckCopyTools(r)
    \/ StartCopy(r)
    \/ DdWrites(r)
    \/ ReadStderrLine(r)
    \/ WaitCopy(r)

Next == \E r \in Runs : PipelineStep(r) \/ WindowsStep(r) \/ UnixStep(r)

\* On a Windows host the steps of the other strategies never apply.
NextWindows == \E r \in Runs : PipelineStep(r) \/ WindowsStep(r)

\* One worker thread at a time, any request.
Spec == Init /\ [][Next]_vars

\* Two worker threads on the same BootableCreator, on a Windows host.
SpecConc == InitConc /\ [][NextWindows]_vars

\* ------------------------------------------------------- device detection
\* DeviceDetector.get_external_devices (src/src/modules/device_detection.py).
\* What the operating system's tools report is the inventory; it is given in
\* the form the code's patterns read it in.  Text that the code only copies
\* (sizes, labels) is kept as it is; text it takes apart is a sequence of
\* characters or of words.

\* str.startswith.
StartsWith(s, prefix) ==
    Len(prefix) <= Len(s) /\ SubSeq(s, 1, Len(prefix)) = prefix

\* str.upper on the characters of a drive path.
Upper(c) ==
    CASE c = "c" -> "C"
      [] c = "d" -> "D"
      [] OTHER   -> c
UpperSeq(s) == [i \in 1..Len(s) |-> Upper(s[i])]

\* str.lower on the words of a tool's output.
LowerWord(w) ==
    CASE w = "Local"     -> "local"
      [] w = "Fixed"     -> "fixed"
      [] w = "Disk"      -> "disk"
      [] w = "Removable" -> "removable"
      [] w = "Partition" -> "partition"
      [] w = "Type"      -> "type"
      [] OTHER           -> w

\* `word in text.lower()` for a text given as its words.
ContainsWord(text, word) == \E i \in 1..Len(text) : LowerWord(text[i]) = word

\* A descriptor: one element of the list get_external_devices returns.  The
\* byte count is left to the size utilities.
Descriptor(name, path, mountpoint, filesystem, size, removable, external) ==
    [name |-> name, path |-> path, mountpoint |-> mountpoint,
     filesystem |-> filesystem, size |-> size,
     removable |-> removable, external |-> external]

\* ---- Windows

\* os.environ.get("SystemDrive", "C:"), as the host may spell it.
SystemDrives == {<<"C", ":">>, <<"c", ":">>}

\* What `wmic logicaldisk ... get Description` shows (<<>>: wmic failed or
\* showed no description), and what `diskpart` shows for `detail volume`
\* (<<>>: diskpart failed).
WmicDescriptions == {<<"Local", "Fixed", "Disk">>, <<"Removable", "Disk">>, <<>>}
DiskpartDetails == {<<"Type", "Removable">>, <<"Type", "Partition">>, <<>>}

\* The kinds of entry psutil.disk_partitions(all=True) gives: a volume with
\* a filesystem, a CD-ROM drive, a drive without a filesystem.
PartitionKinds ==
    {[opts |-> {"rw", "fixed"}, fstype |-> "NTFS"],
     [opts |-> {"ro", "cdrom"}, fstype |-> "CDFS"],
     [opts |-> {"rw", "fixed"}, fstype |-> ""]}

\* The entries for one drive letter.  usage_ok: psutil.disk_usage does not
\* raise PermissionError.  diskpart is only asked when wmic told nothing, so
\* what it would show matters only then.
WindowsPartitions(letter, label) ==
    {p \in [device : {<<letter, ":", "\\">>}, kind : PartitionKinds, label : {label},
            wmic : WmicDescriptions, diskpart : DiskpartDetails, usage_ok : BOOLEAN] :
        p.wmic = <<>> \/ p.diskpart = <<>>}

WindowsInventories ==
    {[platform |-> "Windows", system_drive |-> sd, entries |-> <<c>> \o ds] :
        sd \in SystemDrives,
        c \in WindowsPartitions("C", "OS"),
        ds \in {<<>>} \cup {<<d>> : d \in WindowsPartitions("D", "")}}

\* _get_windows_drive_info: the keys "removable" and "external" of the
\* dictionary it returns, as .get(key, False) reads them: from wmic's
\* description, or else from diskpart's output, or else not set.
WindowsDriveInfo(p) ==
    IF p.wmic # <<>>
        THEN [removable |-> ContainsWord(p.wmic, "removable"),
              external |-> ContainsWord(p.wmic, "external") \/ ContainsWord(p.wmic, "usb")]
        ELSE IF p.diskpart # <<>>
        THEN [removable |-> ContainsWord(p.diskpart, "removable"),
              external |-> ContainsWord(p.diskpart, "external")
                              \/ ContainsWord(p.diskpart, "usb")]
        ELSE [removable |-> FALSE, external |-> FALSE]

\* _is_system_drive on Windows.
IsSystemDrive(drive_path) ==
    UpperSeq(drive_path) = UpperSeq(inventory.system_drive \o <<"\\">>)

\* The descriptor _get_windows_devices appends for a partition.
WindowsDescriptor(p) ==
    LET info == WindowsDriveInfo(p) IN
    Descriptor(IF p.label # "" THEN <<p.label>> ELSE <<"Drive (">> \o p.device \o <<")">>,
               rstrip(p.device, {"\\"}), p.device, p.kind.fstype, "8.00 GB",
               info.removable, info.external)

\* ---- macOS

\* The disks `diskutil list -plist external` names, by number, and what
\* `diskutil info -plist` shows of each (info_ok: it exits with 0).
MacosDisks(id) ==
    {[id |-> id, info_ok |-> ok, mountpoint |-> m] :
        ok \in BOOLEAN, m \in {"", "/", "/Volumes/USB"}}

MacosInventories ==
    {[platform |-> "Darwin", entries |-> a \o b] :
        a \in {<<>>} \cup {<<d>> : d \in MacosDisks("2")},
        b \in {<<>>} \cup {<<d>> : d \in MacosDisks("3")}}

\* The descriptor _get_macos_devices appends for a disk.
MacosDescriptor(d) ==
    Descriptor(<<"Disk ", d.id>>, Dev \o <<"d", "i", "s", "k", d.id>>,
               d.mountpoint, "Unknown", "8.00 GB", TRUE, TRUE)

\* ---- Linux

Mountpoints == {"", "/", "/media/usb"}

\* What /sys/block/<name> shows of a disk: the removable flag ("missing":
\* no such file), whether the real path lies on the USB bus, and whether
\* reading either raises.
SysfsProbes ==
    {[removable |-> "1", usb |-> FALSE, raises |-> FALSE],
     [removable |-> "0", usb |-> TRUE, raises |-> FALSE],
     [removable |-> "0", usb |-> FALSE, raises |-> FALSE],
     [removable |-> "missing", usb |-> FALSE, raises |-> FALSE],
     [removable |-> "0", usb |-> FALSE, raises |-> TRUE]}

\* The mountpoints of a disk's partitions, in order ("": not mounted).
MountSeqs == UNION {[1..k -> Mountpoints] : k \in 0..MaxPartitions}

LinuxDisks(name) ==
    {[name |-> name, sysfs |-> p, mounts |-> m] : p \in SysfsProbes, m \in MountSeqs}

LinuxInventories ==
    {[platform |-> "Linux", entries |-> a \o b] :
        a \in {<<>>} \cup {<<d>> : d \in LinuxDisks(<<"s", "d", "a">>)},
        b \in {<<>>} \cup {<<d>> : d \in LinuxDisks(<<"s", "d", "b">>)}}

PartDigits == <<"1", "2", "3", "4">>

\* One device object of lsblk's output, with the keys the patterns look for.
DevLine(name, type, mountpoint) ==
    [name |-> name, type |-> type, mountpoint |-> mountpoint,
     size |-> "8G", fstype |-> "vfat", label |-> "null"]

\* The device objects lsblk prints for the disks: each disk, then its
\* partitions.
RECURSIVE LsblkLines(_)
LsblkLines(disks) ==
    IF disks = <<>>
        THEN <<>>
        ELSE LET d == Head(disks) IN
             <<DevLine(d.name, "disk", "")>>
                \o [i \in 1..Len(d.mounts) |->
                        DevLine(d.name \o <<PartDigits[i]>>, "part", d.mounts[i])]
                \o LsblkLines(Tail(disks))

\* `"name":"([^"]+)".*?"type":"disk"`: the names of the disk objects.
RECURSIVE DiskEntries(_)
DiskEntries(lines) ==
    IF lines = <<>>
        THEN <<>>
        ELSE (IF Head(lines).type = "disk" THEN <<Head(lines).name>> ELSE <<>>)
                \o DiskEntries(Tail(lines))

\* _is_linux_internal_drive: a set removable flag or a path on the USB bus
\* makes the disk external; a failure to find out makes it internal.
IsLinuxInternalDrive(drive_name) ==
    LET p == (CHOOSE i \in 1..Len(inventory.entries) :
                  inventory.entries[i].name = drive_name)
        sysfs == inventory.entries[p].sysfs
    IN  IF sysfs.raises THEN TRUE
        ELSE IF sysfs.removable = "1" THEN FALSE
        ELSE ~sysfs.usb

\* The first device object with exactly this name (part_pattern).
PartDetails(stdout, part_name) ==
    stdout[CHOOSE i \in 1..Len(stdout) :
               /\ stdout[i].name = part_name
               /\ \A j \in 1..(i - 1) : stdout[j].name # part_name]

\* The descriptor _get_linux_devices appends for a mounted partition.
LinuxDescriptor(details, mountpoint) ==
    Descriptor(IF details.label \notin {"", "null"}
                   THEN <<details.label>>
                   ELSE <<"Disk ">> \o details.name,
               Dev \o details.name, mountpoint,
               IF details.fstype \notin {"", "null"} THEN details.fstype ELSE "Unknown",
               details.size, TRUE, TRUE)

\* The inner loop of _get_linux_devices for one disk: the partition objects
\* whose name begins with the disk's name (partition_pattern), the mounted
\* ones of them, each with its details.
RECURSIVE LinuxDescriptors(_, _, _)
LinuxDescriptors(rest, disk_name, stdout) ==
    IF rest = <<>>
        THEN <<>>
        ELSE LET line == Head(rest) IN
             (IF /\ line.type = "part"
                 /\ StartsWith(line.name, disk_name)
                 /\ line.mountpoint \notin {"", "null"}
                THEN <<LinuxDescriptor(PartDetails(stdout, line.name), line.mountpoint)>>
                ELSE <<>>)
                \o LinuxDescriptors(Tail(rest), disk_name, stdout)

\* ---- get_external_devices

\* What the tools may report on a platform.
Inventories(sys) ==
    CASE sys = "Windows" -> WindowsInventories
      [] sys = "Darwin"  -> MacosInventories
      [] sys = "Linux"   -> LinuxInventories
      [] OTHER           -> {NoInventory}

Scanning(p, todo) == [pc |-> p, todo |-> todo, error |-> "none"]

\* get_external_devices on Windows: psutil.disk_partitions(all=True).
ListWindows ==
    /\ scan.pc = "idle"
    /\ system = "Windows"
    /\ scan' = Scanning("windows", inventory.entries)
    /\ devices' = <<>>
    /\ UNCHANGED <<hostVars, outsideDetector, inventory, files, signal, req, pc, events, stageCalls,
                   stageDone, toolLog, loc, exc, stageError, outcome>>

\* One turn of the loop of _get_windows_devices.  The diskpart that
\* _get_windows_drive_info may ask writes its script to diskpart_script.txt
\* in the temporary directory and removes it again.
WindowsPartition ==
    /\ scan.pc = "windows"
    /\ scan.todo # <<>>
    /\ LET p == Head(scan.todo)
           info == WindowsDriveInfo(p)
           skipped == "cdrom" \in p.kind.opts \/ p.kind.fstype = ""
       IN  /\ devices' =
                IF \/ skipped
                   \/ IsSystemDrive(p.device)
                   \/ (~info.removable /\ ~info.external)
                   \/ ~p.usage_ok
                    THEN devices
                    ELSE Append(devices, WindowsDescriptor(p))
           /\ files' = IF ~skipped /\ p.wmic = <<>>
                          THEN [files EXCEPT !["diskpart_script.txt"] = NoFile]
                          ELSE files
    /\ scan' = [scan EXCEPT !.todo = Tail(@)]
    /\ UNCHANGED <<hostVars, outsideDetector, inventory, signal, req, pc, events, stageCalls,
                   stageDone, toolLog, loc, exc, stageError, outcome>>

\* get_external_devices on macOS: `diskutil list -plist external`; when it
\* fails the empty list is returned.
ListMacos ==
    /\ scan.pc = "idle"
    /\ system = "Darwin"
    /\ \/ scan' = Scanning("returned", <<>>)
       \/ scan' = Scanning("macos", inventory.entries)
    /\ devices' = <<>>
    /\ UNCHANGED <<hostVars, outsideDetector, inventory, files, signal, req, pc, events, stageCalls,
                   stageDone, toolLog, loc, exc, stageError, outcome>>

\* One turn of the loop of _get_macos_devices.
MacosDisk ==
    /\ scan.pc = "macos"
    /\ scan.todo # <<>>
    /\ LET d == Head(scan.todo) IN
       devices' = IF ~d.info_ok \/ d.mountpoint = ""
                      THEN devices
                      ELSE Append(devices, MacosDescriptor(d))
    /\ scan' = [scan EXCEPT !.todo = Tail(@)]
    /\ UNCHANGED <<hostVars, outsideDetector, inventory, files, signal, req, pc, events, stageCalls,
                   stageDone, toolLog, loc, exc, stageError, outcome>>

\* get_external_devices on Linux: lsblk.  Without lsblk the exception is
\* re-raised; when lsblk fails the empty list is returned.
ListLinux ==
    /\ scan.pc = "idle"
    /\ system = "Linux"
    /\ IF "lsblk" \notin installed
         THEN scan' = [pc |-> "raised", todo |-> <<>>, error |-> "FileNotFoundError"]
         ELSE \/ scan' = Scanning("returned", <<>>)
              \/ scan' = Scanning("linux", DiskEntries(LsblkLines(inventory.entries)))
    /\ devices' = <<>>
    /\ UNCHANGED <<hostVars, outsideDetector, inventory, files, signal, req, pc, events, stageCalls,
                   stageDone, toolLog, loc, exc, stageError, outcome>>

\* One turn of the outer loop of _get_linux_devices.
LinuxDisk ==
    /\ scan.pc = "linux"
    /\ scan.todo # <<>>
    /\ LET disk_name == Head(scan.todo)
           stdout == LsblkLines(inventory.entries)
       IN  devices' =
               IF StartsWith(disk_name, <<"l", "o", "o", "p">>)
                    \/ IsLinuxInternalDrive(disk_name)
                   THEN devices
                   ELSE devices \o LinuxDescriptors(stdout, disk_name, stdout)
    /\ scan' = [scan EXCEPT !.todo = Tail(@)]
    /\ UNCHANGED <<hostVars, outsideDetector, inventory, files, signal, req, pc, events, stageCalls,
                   stageDone, toolLog, loc, exc, stageError, outcome>>

\* get_external_devices on any other platform.
ListUnsupported ==
    /\ scan.pc = "idle"
    /\ system \notin {"Windows", "Darwin", "Linux"}
    /\ scan' = [pc |-> "raised", todo |-> <<>>, error |-> "NotImplementedError"]
    /\ devices' = <<>>
    /\ UNCHANGED <<hostVars, outsideDetector, inventory, files, signal, req, pc, events, stageCalls,
                   stageDone, toolLog, loc, exc, stageError, outcome>>

\* `return devices` once the loop is through.
ReturnDevices ==
    /\ scan.pc \in {"windows", "macos", "linux"}
    /\ scan.todo = <<>>
    /\ scan' = [scan EXCEPT !.pc = "returned"]
    /\ UNCHANGED <<hostVars, outsideDetector, inventory, devices, files, signal, req, pc, events,
                   stageCalls, stageDone, toolLog, loc, exc, stageError, outcome>>

\* A host with its drives, before the devices are listed; no run is made.
InitDetect ==
    /\ system \in Systems
    /\ installed \in IF system = "Linux" THEN {Tools, Tools \ {"lsblk"}} ELSE {Tools}
    /\ workers = {}
    /\ files = [f \in ScriptFiles |-> NoFile]
    /\ req = [r \in Runs |-> IdleRequest(system)]
    /\ RunsIdle
    /\ inventory \in Inventories(system)
    /\ scan = ScanIdle
    /\ devices = <<>>
    /\ ejecting = EjectIdle
    /\ sizing = SizingIdle
    /\ HandlerIdle
    /\ window = WindowIdle

NextDetect ==
    \/ ListWindows
    \/ WindowsPartition
    \/ ListMacos
    \/ MacosDisk
    \/ ListLinux
    \/ LinuxDisk
    \/ ListUnsupported
    \/ ReturnDevices

\* The device detector listing the drives of a host.
SpecDetect == InitDetect /\ [][NextDetect]_vars

\* ---- eject_device

\* The programs eject_device starts.
EjectTools == {"cscript", "diskutil", "umount", "eject"}

\* The device paths eject_device is called with.
EjectPaths == {<<"D:">>, <<"/dev/disk2">>, <<"/dev/sdb1">>}

\* Everything eject_device leaves alone.
outsideEject ==
    <<system, installed, workers, files, req, pc, events, stageCalls, stageDone,
      toolLog, loc, exc, stageError, outcome, signal, inventory, scan, devices,
      sizing, handlerVars, window>>

\* One program started by subprocess.run, with the status it exited with.
Started(tool, returncode) == [tool |-> tool, returncode |-> returncode]

\* `return result.returncode == 0` of a program that was started, and the
\* `return False` of the except clause when the program is not on the path.
Ejected(e, tool, returncode) ==
    [e EXCEPT !.started = Append(@, Started(tool, returncode)),
              !.result = IF returncode = 0 THEN "True" ELSE "False",
              !.pc = "returned"]
NotStarted(e) == [e EXCEPT !.result = "False", !.pc = "returned"]

\* eject_device(device_path): the dispatch on self.system.  On a platform
\* that is not supported NotImplementedError is raised and raised again.
EjectDevice ==
    /\ ejecting.pc = "idle"
    /\ \E device_path \in EjectPaths :
        ejecting' = [ejecting EXCEPT
            !.device_path = device_path,
            !.pc = CASE system = "Windows" -> "eject_windows"
                     [] system = "Darwin"  -> "eject_macos"
                     [] system = "Linux"   -> "umount"
                     [] OTHER              -> "raised"]
    /\ UNCHANGED outsideEject

\* _eject_windows_device: the script is written, cscript is run on it, the
\* script is removed.
EjectWindowsDevice ==
    /\ ejecting.pc = "eject_windows"
    /\ IF "cscript" \in installed
         THEN \E returncode \in ExitStatuses :
                ejecting' = Ejected(ejecting, "cscript", returncode)
         ELSE ejecting' = NotStarted(ejecting)
    /\ UNCHANGED outsideEject

\* _eject_macos_device: diskutil eject.
EjectMacosDevice ==
    /\ ejecting.pc = "eject_macos"
    /\ IF "diskutil" \in installed
         THEN \E returncode \in ExitStatuses :
                ejecting' = Ejected(ejecting, "diskutil", returncode)
         ELSE ejecting' = NotStarted(ejecting)
    /\ UNCHANGED outsideEject

\* An unmount step that goes on to eject whatever umount exited with.
UnmountForEjectIgnoringStatus ==
    /\ ejecting.pc = "umount"
    /\ IF "umount" \in installed
         THEN \E returncode \in ExitStatuses :
                ejecting' = [ejecting EXCEPT
                    !.started = Append(@, Started("umount", returncode)),
                    !.pc = "eject"]
         ELSE ejecting' = NotStarted(ejecting)
    /\ UNCHANGED outsideEject

\* _eject_linux_device, first half: umount of the device; a status other
\* than zero ends the call with False.
UnmountForEject ==
    /\ ejecting.pc = "umount"
    /\ IF "umount" \in installed
         THEN \E returncode \in ExitStatuses :
                ejecting' = [ejecting EXCEPT
                    !.started = Append(@, Started("umount", returncode)),
                    !.result = IF returncode # 0 THEN "False" ELSE @,
                    !.pc = IF returncode # 0 THEN "returned" ELSE "eject"]
         ELSE ejecting' = NotStarted(ejecting)
    /\ UNCHANGED outsideEject

\* _eject_linux_device, second half: eject of the device.
EjectLinuxDevice ==
    /\ ejecting.pc = "eject"
    /\ IF "eject" \in installed
         THEN \E returncode \in ExitStatuses :
                ejecting' = Ejected(ejecting, "eject", returncode)
         ELSE ejecting' = NotStarted(ejecting)
    /\ UNCHANGED outsideEject

\* A host with any of the eject programs missing; no run, no listing.
InitEject ==
    /\ system \in Systems
    /\ installed \in {(Tools \ EjectTools) \cup t : t \in SUBSET EjectTools}
    /\ workers = {}
    /\ files = [f \in ScriptFiles |-> NoFile]
    /\ req = [r \in Runs |-> IdleRequest(system)]
    /\ RunsIdle
    /\ DetectorIdle
    /\ HandlerIdle
    /\ window = WindowIdle

NextEject ==
    \/ EjectDevice
    \/ EjectWindowsDevice
    \/ EjectMacosDevice
    \/ UnmountForEject
    \/ EjectLinuxDevice

\* The device detector ejecting a device.
SpecEject == InitEject /\ [][NextEject]_vars

\* ------------------------------------------------------------ ISO handler

\* The bytes a file is made of, and the files: absent, or of any bytes up to
\* the longest.
Bytes == {0, 1}
IsoFiles ==
    {NoIsoFile} \cup
    {[exists |-> TRUE, bytes |-> b] : b \in UNION {[1..n -> Bytes] : n \in 0..MaxFileLen}}

\* hashlib.sha256 stands as a digest of one byte of state: sha256() gives
\* the state it starts from, update(block) takes the bytes of a block in one
\* after the other, hexdigest() writes the state in lower-case hexadecimal.
Sha256New == 7

RECURSIVE Sha256Update(_, _)
Sha256Update(h, block) ==
    IF block = <<>>
        THEN h
        ELSE Sha256Update((h * 31 + Head(block) + 1) % 256, Tail(block))

HexDigits == <<"0", "1", "2", "3", "4", "5", "6", "7",
               "8", "9", "a", "b", "c", "d", "e", "f">>

Hexdigest(h) == <<HexDigits[(h \div 16) + 1], HexDigits[(h % 16) + 1]>>

\* str.lower and str.upper on the characters of a checksum.
LowerChar(c) ==
    CASE c = "A" -> "a" [] c = "B" -> "b" [] c = "C" -> "c"
      [] c = "D" -> "d" [] c = "E" -> "e" [] c = "F" -> "f"
      [] OTHER -> c

UpperChar(c) ==
    CASE c = "a" -> "A" [] c = "b" -> "B" [] c = "c" -> "C"
      [] c = "d" -> "D" [] c = "e" -> "E" [] c = "f" -> "F"
      [] c = "g" -> "G" [] c = "k" -> "K" [] c = "m" -> "M"
      [] c = "t" -> "T"
      [] OTHER -> c

lower(s) == [i \in 1..Len(s) |-> LowerChar(s[i])]
upper(s) == [i \in 1..Len(s) |-> UpperChar(s[i])]

\* str.strip(): drop the whitespace at both ends.
Whitespace == {" ", "\t", "\n"}

RECURSIVE lstrip(_, _)
lstrip(s, chars) ==
    IF s # <<>> /\ Head(s) \in chars THEN lstrip(Tail(s), chars) ELSE s

strip(s) == lstrip(rstrip(s, Whitespace), Whitespace)

\* The digest of a file taken in one piece.
Sha256Of(bytes) == Hexdigest(Sha256Update(Sha256New, bytes))

\* What a caller passes as the expected checksum: the digest of some file
\* as it stands, in capitals, with whitespace around it, with whitespace
\* inside it, or nothing.
ExpectedChecksums ==
    {<<>>} \cup
    UNION {{d, upper(d), <<" ">> \o d \o <<"\n">>, <<"\t">> \o upper(d),
            <<d[1], " ", d[2]>>} :
                d \in {Sha256Of(f.bytes) : f \in IsoFiles \ {NoIsoFile}}}

\* calculate_checksum up to the loop over the file: a file that is not
\* there raises FileNotFoundError.
StartHashing(op, given, expected) ==
    hashing' = [hashing EXCEPT
                    !.op = op, !.given = given, !.expected_checksum = expected,
                    !.sha256_hash = Sha256New, !.pos = 0, !.checksum = <<>>,
                    !.match = FALSE,
                    !.pc = IF isoFile.exists THEN "reading" ELSE "raised"]

\* calculate_checksum(file_path), called by itself.
CalculateChecksum ==
    /\ hashing.pc \in {"idle", "returned", "raised"}
    /\ StartHashing("calculate", <<>>, <<>>)
    /\ UNCHANGED <<hostVars, detectVars, window, isoFile, files, signal, req, pc,
                   events, stageCalls, stageDone, toolLog, loc, exc, stageError,
                   outcome>>

\* A verification that compares with the expected checksum as it was given.
VerifyChecksumAsGiven ==
    /\ hashing.pc \in {"idle", "returned", "raised"}
    /\ \E expected \in ExpectedChecksums \cup hashing.computed :
            StartHashing("verify", expected, expected)
    /\ UNCHANGED <<hostVars, detectVars, window, isoFile, files, signal, req, pc,
                   events, stageCalls, stageDone, toolLog, loc, exc, stageError,
                   outcome>>

\* verify_checksum(file_path, expected_checksum): the expected checksum is
\* normalised, then calculate_checksum is called.  A caller passes any
\* checksum, or one that calculate_checksum has returned for the file.
VerifyChecksum ==
    /\ hashing.pc \in {"idle", "returned", "raised"}
    /\ \E expected \in ExpectedChecksums \cup hashing.computed :
            StartHashing("verify", expected, strip(lower(expected)))
    /\ UNCHANGED <<hostVars, detectVars, window, isoFile, files, signal, req, pc,
                   events, stageCalls, stageDone, toolLog, loc, exc, stageError,
                   outcome>>

\* calculate_checksum, one turn of `for byte_block in iter(lambda:
\* f.read(4096), b"")`: a block goes into the digest; the empty block ends
\* the loop, the digest is returned, and verify_checksum compares it.
ReadBlock ==
    /\ hashing.pc = "reading"
    /\ LET upto == IF hashing.pos + BlockSize < Len(isoFile.bytes)
                       THEN hashing.pos + BlockSize
                       ELSE Len(isoFile.bytes)
           byte_block == SubSeq(isoFile.bytes, hashing.pos + 1, upto)
           checksum == Hexdigest(hashing.sha256_hash)
       IN  IF byte_block # <<>>
             THEN hashing' = [hashing EXCEPT
                        !.sha256_hash = Sha256Update(@, byte_block),
                        !.pos = upto]
             ELSE hashing' = [hashing EXCEPT
                        !.checksum = checksum,
                        !.computed = @ \cup {checksum},
                        !.match = (hashing.op = "verify"
                                   /\ checksum = hashing.expected_checksum),
                        !.pc = "returned"]
    /\ UNCHANGED <<hostVars, detectVars, window, isoFile, files, signal, req, pc,
                   events, stageCalls, stageDone, toolLog, loc, exc, stageError,
                   outcome>>

InitChecksum ==
    /\ system = "Linux"
    /\ installed = Tools
    /\ workers = {}
    /\ files = [f \in ScriptFiles |-> NoFile]
    /\ req = [r \in Runs |-> IdleRequest(system)]
    /\ RunsIdle
    /\ DetectorIdle
    /\ isoFile \in IsoFiles
    /\ hashing = HashingIdle
    /\ window = WindowIdle

NextChecksum ==
    \/ CalculateChecksum
    \/ VerifyChecksum
    \/ ReadBlock

\* The ISO handler computing and verifying checksums of one file.
SpecChecksum == InitChecksum /\ [][NextChecksum]_vars

\* --------------------------------------------------------- size utilities
\* DeviceDetector._format_size and _parse_size
\* (src/src/modules/device_detection.py).  A text is the sequence of its
\* characters.

DigitChars == <<"0", "1", "2", "3", "4", "5", "6", "7", "8", "9">>
DigitSet == {DigitChars[i] : i \in 1..10}
DigitValue(c) == CHOOSE d \in 0..9 : DigitChars[d + 1] = c

\* str(n) of a natural number.
RECURSIVE Decimal(_)
Decimal(n) ==
    IF n < 10 THEN <<DigitChars[n + 1]>>
              ELSE Append(Decimal(n \div 10), DigitChars[(n % 10) + 1])

\* int() of a run of digits (0 for none).
RECURSIVE DigitsValue(_)
DigitsValue(s) ==
    IF s = <<>> THEN 0
                ELSE DigitsValue(SubSeq(s, 1, Len(s) - 1)) * 10 + DigitValue(s[Len(s)])

RECURSIVE Power(_, _)
Power(b, e) == IF e = 0 THEN 1 ELSE b * Power(b, e - 1)

SizeUnits == <<"K", "M", "G", "T">>

\* The loop of _format_size: size_bytes is divided by 1024 once for every
\* unit until it is below 1024 or the units are used up.  The quotient is
\* kept as size_bytes over 1024^k; the loop gives k.
RECURSIVE UnitIndex(_, _)
UnitIndex(size_bytes, k) ==
    IF size_bytes \div Power(1024, k) < 1024 \/ k = Len(SizeUnits)
        THEN k
        ELSE UnitIndex(size_bytes, k + 1)

\* The hundredths `:.2f` writes for num over den: the nearest, the even one
\* of two that are equally near.
Hundredths(num, den) ==
    LET q == (num * 100) \div den
        r == (num * 100) % den
    IN  IF 2 * r > den \/ (2 * r = den /\ q % 2 = 1) THEN q + 1 ELSE q

\* _format_size(size_bytes).
format_size(size_bytes) ==
    IF size_bytes < 1024
        THEN Decimal(size_bytes) \o <<" ", "B">>
        ELSE LET k == UnitIndex(size_bytes, 1)
                 h == Hundredths(size_bytes, Power(1024, k))
             IN  Decimal(h \div 100) \o <<".">>
                    \o <<DigitChars[((h % 100) \div 10) + 1], DigitChars[(h % 10) + 1]>>
                    \o <<" ", SizeUnits[k], "B">>

\* The text `[\d.]+` matches at the start of s: the longest run of digits
\* and points.
RECURSIVE NumberPrefix(_)
NumberPrefix(s) ==
    IF s # <<>> /\ Head(s) \in DigitSet \cup {"."}
        THEN <<Head(s)>> \o NumberPrefix(Tail(s))
        ELSE <<>>

\* Whether float() takes a run of digits and points: one point at most and
\* a digit at least.
FloatReadable(s) ==
    /\ Cardinality({i \in 1..Len(s) : s[i] = "."}) <= 1
    /\ \E i \in 1..Len(s) : s[i] \in DigitSet

\* The multipliers of _parse_size.
Multiplier(unit) ==
    CASE unit = "K" -> 1024
      [] unit = "M" -> 1024 * 1024
      [] unit = "G" -> 1024 * 1024 * 1024
      [] unit = "T" -> 1024 * 1024 * 1024 * 1024
      [] OTHER      -> 1

\* _parse_size(size_str): [raised |-> whether float() raised ValueError,
\* value |-> what is returned].
parse_size(size_str) ==
    LET s == upper(strip(size_str))
        number == NumberPrefix(s)
        rest == SubSeq(s, Len(number) + 1, Len(s))
        unit == IF rest # <<>> /\ rest[1] \in {"K", "M", "G", "T"} THEN rest[1] ELSE ""
        point == IF \E i \in 1..Len(number) : number[i] = "."
                    THEN CHOOSE i \in 1..Len(number) : number[i] = "."
                    ELSE Len(number) + 1
        whole == SubSeq(number, 1, point - 1)
        fraction == SubSeq(number, point + 1, Len(number))
    IN  IF number = <<>>
            THEN [raised |-> FALSE, value |-> 0]
        ELSE IF ~FloatReadable(number)
            THEN [raised |-> TRUE, value |-> 0]
        ELSE [raised |-> FALSE,
              value |-> ((DigitsValue(whole) * Power(10, Len(fraction))
                            + DigitsValue(fraction)) * Multiplier(unit))
                                \div Power(10, Len(fraction))]

\* The byte counts _format_size is called with: below 1 KB, whole numbers of
\* KB and of MB, and counts in between.
ByteCounts ==
    {0, 1, 512, 1023, 1024, 1536, 2048, 1024 * 1023, 1024 * 1024 - 1,
     1024 * 1024, 1024 * 1025, 1024 * 1024 * 3, 1024 * 1024 * 8}

\* The texts _parse_size is called with: sizes as lsblk writes them, sizes
\* as _format_size writes them, and texts that are no sizes.
SizeTexts ==
    {<<"1", "G">>, <<"5", "0", "0", "M">>, <<"1", ".", "5", "K">>,
     <<" ", "2", "k", " ">>, <<"7">>, <<"2", ".", "0", "0", " ", "K", "B">>,
     <<>>, <<"a", "b", "c">>, <<"G">>, <<".">>, <<"1", ".", "2", ".", "3">>}

\* Everything the size utilities leave alone.
outsideSizing ==
    <<system, installed, workers, files, req, pc, events, stageCalls, stageDone,
      toolLog, loc, exc, stageError, outcome, signal, inventory, scan, devices,
      ejecting, handlerVars, window>>

\* A call of _format_size; what it returns is what _parse_size is given
\* next.
CallFormatSize ==
    /\ sizing.pc = "idle"
    /\ sizing' = [sizing EXCEPT !.formatted = format_size(sizing.size_bytes),
                                !.size_str = format_size(sizing.size_bytes),
                                !.pc = "formatted"]
    /\ UNCHANGED outsideSizing

\* A call of _parse_size: it returns a number or float() raises.
CallParseSize ==
    /\ sizing.pc \in {"idle", "formatted"}
    /\ LET result == parse_size(sizing.size_str) IN
       sizing' = [sizing EXCEPT !.parsed = result.value,
                                !.pc = IF result.raised THEN "raised" ELSE "parsed"]
    /\ UNCHANGED outsideSizing

\* A byte count and a text, before either utility is called.
InitSizes ==
    /\ system \in {"Linux"}
    /\ installed = Tools
    /\ workers = {}
    /\ files = [f \in ScriptFiles |-> NoFile]
    /\ req = [r \in Runs |-> IdleRequest(system)]
    /\ RunsIdle
    /\ inventory = NoInventory
    /\ scan = ScanIdle
    /\ devices = <<>>
    /\ ejecting = EjectIdle
    /\ \E n \in ByteCounts, s \in SizeTexts :
            sizing = [SizingIdle EXCEPT !.size_bytes = n, !.size_str = s]
    /\ HandlerIdle
    /\ window = WindowIdle

NextSizes == CallFormatSize \/ CallParseSize

\* The size utilities applied to a byte count and to a text.
SpecSizes == InitSizes /\ [][NextSizes]_vars

\* ------------------------------------------------------------ main window

\* What the URL field may hold: nothing, blanks, a path without scheme and
\* host, a scheme without host, a full URL, a full URL with blanks around it.
UrlTexts ==
    {<<>>, <<" ">>, <<"/linux.iso">>, <<"https://", "/linux.iso">>,
     <<"https://", "mirror.example", "/linux.iso">>,
     <<" ", "https://", "mirror.example", "/linux.iso", " ">>}

\* urlparse(url): the scheme and the network location of a URL.
UrlScheme(url) == IF url # <<>> /\ url[1] = "https://" THEN "https" ELSE ""
UrlNetloc(url) ==
    IF UrlScheme(url) # "" /\ Len(url) >= 2 /\ url[2] = "mirror.example"
        THEN url[2]
        ELSE ""

\* What QFileDialog.getSaveFileName returns: a path, or nothing when the
\* dialog is cancelled.
SavePaths == {<<>>, <<"/home/user/linux.iso">>}

\* The image the user has on disk from the start, and its checksum.
LocalIso == <<"/home/user/ubuntu.iso">>
LocalIsoChecksum == <<"3", "1", "5", "f">>

\* What the ISO path field and the checksum field may hold at the start.
IsoPathTexts == {<<>>, LocalIso, <<"/home/user/gone.iso">>}
ChecksumTexts ==
    {<<>>, LocalIsoChecksum, <<" ">> \o upper(LocalIsoChecksum),
     <<"0", "0", "0", "0">>}

\* The content-length header of a response, in MB: 0 when there is none.
ContentLengths == {0, 2}

\* _format_size of a whole number of MB below 1024: "0 B" for nothing,
\* or the number with two decimals and the unit.
FormatSize(mb) == IF mb = 0 THEN <<0, " B">> ELSE <<mb, ".00 MB">>

\* The number of characters of a text, piece by piece.
PieceChars(piece) ==
    CASE piece = "Operation completed successfully" -> 32
      [] piece = "File not found: "                 -> 16
      [] OTHER                                      -> 21

RECURSIVE CharCount(_)
CharCount(text) ==
    IF text = <<>> THEN 0 ELSE PieceChars(Head(text)) + CharCount(Tail(text))

\* What no handler of the main window and no worker thread of it touches.
outsideWindow ==
    <<hostVars, detectVars, handlerVars, files, signal, req, pc, events,
      stageCalls, stageDone, toolLog, loc, exc, stageError, outcome>>

\* The thread the main window starts its next worker in: the first of those
\* that run no worker.
Idle(t) == t \in window.slots /\ window.threads[t].pc \in {"none", "done"}
Free(t) == Idle(t) /\ \A u \in Threads : Idle(u) => t <= u

\* A worker thread whose completion was handled: nothing of it is left
\* but what it was for.
Finished(th) == [NoThread EXCEPT !.op = th.op, !.pc = "done"]

\* MainWindow.update_progress, the progress_callback of the workers.
UpdateProgress(w, percentage, message) ==
    [w EXCEPT !.progress_bar = percentage, !.status_label = message]

\* MainWindow.download_iso: the handler of the download button.  Nothing is
\* started without a URL or without a path to save to.
DownloadIso ==
    /\ window.download_button
    /\ \E t \in Threads, save_path \in SavePaths :
        /\ Free(t)
        /\ LET url == strip(window.iso_url_edit) IN
           IF url = <<>>
             THEN window' = [window EXCEPT
                       !.box = <<"Warning", "Please enter a valid URL">>]
             ELSE IF save_path = <<>>
             THEN UNCHANGED window
             ELSE window' = [window EXCEPT
                       !.status_label = <<"Downloading ISO from ">> \o url \o <<"...">>,
                       !.progress_bar = 0,
                       !.create_button = FALSE,
                       !.threads[t] = [NoThread EXCEPT
                            !.op = "download", !.pc = "started",
                            !.url = url, !.path = save_path]]
    /\ UNCHANGED outsideWindow

\* download_iso of the ISO handler up to the opening of the file: a URL
\* without scheme or host raises ValueError; a request that fails raises
\* RequestException, and the except clause removes what is at save_path; a
\* response opens the file for writing.
StartDownload ==
    /\ \E t \in Threads :
        /\ window.threads[t].op = "download"
        /\ window.threads[t].pc = "started"
        /\ LET th == window.threads[t] IN
           IF UrlScheme(th.url) = "" \/ UrlNetloc(th.url) = ""
             THEN window' = [window EXCEPT
                    !.threads[t].exc = Exc("ValueError", <<"Invalid URL: ">> \o th.url),
                    !.threads[t].pc = "raised"]
             ELSE \/ window' = [window EXCEPT
                        !.saved = @ \ {th.path},
                        !.threads[t].exc =
                            Exc("RequestException", <<"404 Client Error">>),
                        !.threads[t].pc = "raised"]
                  \/ \E total_size \in ContentLengths :
                        window' = [window EXCEPT
                            !.saved = @ \cup {th.path},
                            !.threads[t].opened = TRUE,
                            !.threads[t].total_size = total_size,
                            !.threads[t].downloaded = 0,
                            !.threads[t].pc = "receiving"]
    /\ UNCHANGED outsideWindow

\* download_iso, one turn of the loop over response.iter_content: the chunk
\* is written and, when the total size is known, progress is reported.
ReceiveChunk ==
    /\ \E t \in Threads :
        /\ window.threads[t].op = "download"
        /\ window.threads[t].pc = "receiving"
        /\ window.threads[t].downloaded < MaxChunks
        /\ LET downloaded == window.threads[t].downloaded + 1
               total_size == window.threads[t].total_size
               percentage == (downloaded * 100) \div total_size
           IN  window' =
                  IF total_size > 0
                    THEN [UpdateProgress(window, percentage,
                                <<"Downloading ISO: ">> \o FormatSize(downloaded)
                                    \o <<" of ">> \o FormatSize(total_size))
                            EXCEPT !.threads[t].downloaded = downloaded,
                                   !.threads[t].pcts = Append(@, percentage)]
                    ELSE [window EXCEPT !.threads[t].downloaded = downloaded]
    /\ UNCHANGED outsideWindow

\* download_iso, the connection breaks while the chunks come in:
\* RequestException, the partial file is removed, the exception goes on.
DownloadBreaks ==
    /\ \E t \in Threads :
        /\ window.threads[t].op = "download"
        /\ window.threads[t].pc = "receiving"
        /\ window' = [window EXCEPT
                !.saved = @ \ {window.threads[t].path},
                !.threads[t].exc = Exc("RequestException", <<"Connection broken">>),
                !.threads[t].pc = "raised"]
    /\ UNCHANGED outsideWindow

\* download_iso, f.write(chunk) fails (the disk is full, the medium is
\* gone): OSError is no RequestException, so the except clause is passed by
\* and the exception goes on with the file left as it is.
WriteFails ==
    /\ \E t \in Threads :
        /\ window.threads[t].op = "download"
        /\ window.threads[t].pc = "receiving"
        /\ window' = [window EXCEPT
                !.threads[t].exc = Exc("OSError", <<"No space left on device">>),
                !.threads[t].pc = "raised"]
    /\ UNCHANGED outsideWindow

\* download_iso after the last chunk: the final progress report and the
\* return of save_path, which download_task returns in turn.
FinishDownload ==
    /\ \E t \in Threads :
        /\ window.threads[t].op = "download"
        /\ window.threads[t].pc = "receiving"
        /\ window' = [UpdateProgress(window, 100,
                            <<"Download complete: ">>
                                \o FormatSize(window.threads[t].downloaded))
                        EXCEPT !.download = [returned |-> window.threads[t].path,
                                             succeeded |-> FALSE],
                               !.threads[t].pcts = Append(@, 100),
                               !.threads[t].returned = window.threads[t].path,
                               !.threads[t].pc = "returned"]
    /\ UNCHANGED outsideWindow

\* Whether there is a file at a path.
FileExists(path) == path = LocalIso \/ path \in window.saved

\* calculate_checksum_task of handle_download_result, run by its own worker
\* thread: calculate_checksum of the path it was given.
ChecksumTask ==
    /\ \E t \in Threads :
        /\ window.threads[t].op = "checksum"
        /\ window.threads[t].pc = "started"
        /\ LET path == window.threads[t].path IN
           window' = [window EXCEPT
                !.threads[t].pc = IF FileExists(path) THEN "returned" ELSE "raised",
                !.threads[t].returned =
                    IF FileExists(path) THEN LocalIsoChecksum ELSE <<>>,
                !.threads[t].exc =
                    IF FileExists(path)
                        THEN NoExc
                        ELSE Exc("FileNotFoundError", <<"File not found: ">> \o path)]
    /\ UNCHANGED outsideWindow

\* MainWindow.verify_checksum: the handler of the verify button.
VerifyClicked ==
    /\ window.verify_button
    /\ \E t \in Threads :
        /\ Free(t)
        /\ LET iso_path == window.iso_path_edit
               user_checksum == lower(strip(window.checksum_edit))
           IN  window' =
                  IF iso_path = <<>>
                    THEN [window EXCEPT
                            !.box = <<"Warning", "Please select an ISO file first">>]
                    ELSE IF user_checksum = <<>>
                    THEN [window EXCEPT
                            !.box = <<"Warning",
                                      "Please enter a checksum to verify against">>]
                    ELSE [window EXCEPT
                            !.status_label = <<"Verifying checksum...">>,
                            !.threads[t] = [NoThread EXCEPT
                                !.op = "verify", !.pc = "started",
                                !.path = iso_path, !.expected = user_checksum]]
    /\ UNCHANGED outsideWindow

\* verify_task: calculate_checksum of the image, and the pair (calculated ==
\* user_checksum, calculated) it returns.
VerifyTask ==
    /\ \E t \in Threads :
        /\ window.threads[t].op = "verify"
        /\ window.threads[t].pc = "started"
        /\ LET th == window.threads[t] IN
           window' =
              IF FileExists(th.path)
                THEN [window EXCEPT
                        !.threads[t].returned =
                            <<LocalIsoChecksum = th.expected, LocalIsoChecksum>>,
                        !.threads[t].pc = "returned"]
                ELSE [window EXCEPT
                        !.threads[t].exc =
                            Exc("FileNotFoundError",
                                <<"File not found: ">> \o th.path),
                        !.threads[t].pc = "raised"]
    /\ UNCHANGED outsideWindow

\* MainWindow.create_bootable_drive: the handler of the create button.  The
\* confirmation dialog is answered with yes or no.
CreateClicked ==
    /\ window.create_button
    /\ \E t \in Threads, confirmed \in BOOLEAN :
        /\ Free(t)
        /\ window' =
              IF window.device_count = 0
                THEN [window EXCEPT !.box = <<"Warning", "No device selected">>]
                ELSE IF window.iso_path_edit = <<>>
                THEN [window EXCEPT
                        !.box = <<"Warning", "Please select an ISO file">>]
                ELSE IF ~confirmed
                THEN window
                ELSE [window EXCEPT
                        !.create_button = FALSE,
                        !.refresh_button = FALSE,
                        !.browse_button = FALSE,
                        !.download_button = FALSE,
                        !.verify_button = FALSE,
                        !.status_label = <<"Creating bootable drive...">>,
                        !.progress_bar = 0,
                        !.threads[t] = [NoThread EXCEPT
                            !.op = "create", !.pc = "started",
                            !.path = window.iso_path_edit]]
    /\ UNCHANGED outsideWindow

\* create_task: create_bootable_drive with update_progress as its sink,
\* taken as a whole: it returns after its 100% event or raises after its
\* error event at 0%.
CreateTask ==
    /\ \E t \in Threads :
        /\ window.threads[t].op = "create"
        /\ window.threads[t].pc = "started"
        /\ \/ /\ FileExists(window.threads[t].path)
              /\ window' = [UpdateProgress(window, FinalPct,
                                <<"Bootable drive created successfully!">>)
                              EXCEPT !.threads[t].pc = "returned"]
           \/ \E msg \in {<<"ISO file not found: ">> \o window.threads[t].path,
                          <<"Failed to write ISO to drive: ">>} :
                /\ FileExists(window.threads[t].path)
                        = (msg = <<"Failed to write ISO to drive: ">>)
                /\ window' = [UpdateProgress(window, ErrorPct, <<"Error: ">> \o msg)
                                EXCEPT !.threads[t].exc = Exc("Exception", msg),
                                       !.threads[t].pc = "raised"]
    /\ UNCHANGED outsideWindow

\* WorkerThread.run once the operation has returned or raised: what the
\* operation returned is dropped, operation_complete carries a fixed text
\* or the text of the exception.
ThreadComplete ==
    /\ \E t \in Threads :
        /\ window.threads[t].pc \in {"returned", "raised"}
        /\ window' = [window EXCEPT
                !.threads[t].signal =
                    IF window.threads[t].pc = "returned"
                        THEN Signal(TRUE, <<"Operation completed successfully">>)
                        ELSE Signal(FALSE, window.threads[t].exc.msg),
                !.threads[t].pc = "emitted"]
    /\ UNCHANGED outsideWindow

\* MainWindow.handle_download_result(success, result), the slot of the
\* download thread's operation_complete.
HandleDownloadResult ==
    /\ \E t \in Threads :
        /\ window.threads[t].op = "download"
        /\ window.threads[t].pc = "emitted"
        /\ LET success == window.threads[t].signal.ok
               result == window.threads[t].signal.msg
           IN  window' =
                  IF success
                    THEN [window EXCEPT
                            !.create_button = TRUE,
                            !.iso_path_edit = result,
                            !.status_label = <<"ISO downloaded successfully">>,
                            !.download.succeeded = TRUE,
                            !.threads[t] = [NoThread EXCEPT !.op = "checksum",
                                                            !.pc = "started",
                                                            !.path = result]]
                    ELSE [window EXCEPT
                            !.create_button = TRUE,
                            !.box = <<"Error", "Failed to download ISO: ">> \o result,
                            !.status_label = <<"Error downloading ISO">>,
                            !.threads[t] = Finished(@)]
    /\ UNCHANGED outsideWindow

\* MainWindow.handle_checksum_result(success, result).
HandleChecksumResult ==
    /\ \E t \in Threads :
        /\ window.threads[t].op = "checksum"
        /\ window.threads[t].pc = "emitted"
        /\ LET success == window.threads[t].signal.ok
               result == window.threads[t].signal.msg
           IN  window' =
                  IF success
                    THEN [window EXCEPT
                            !.checksum_edit = result,
                            !.status_label = <<"Checksum calculated successfully">>,
                            !.threads[t] = Finished(@)]
                    ELSE [window EXCEPT
                            !.box = <<"Error", "Failed to calculate checksum: ">>
                                        \o result,
                            !.status_label = <<"Error calculating checksum">>,
                            !.threads[t] = Finished(@)]
    /\ UNCHANGED outsideWindow

\* MainWindow.handle_verify_result(success, result): its first statement,
\* `verified, calculated = result`, unpacks the text of the signal; a text
\* of other than two characters makes it raise ValueError, and nothing of
\* the handler is run.  (A text of two characters would give two strings of
\* one character, the first of them true.)
HandleVerifyResult ==
    /\ \E t \in Threads :
        /\ window.threads[t].op = "verify"
        /\ window.threads[t].pc = "emitted"
        /\ LET success == window.threads[t].signal.ok
               result == window.threads[t].signal.msg
           IN  window' =
                  IF CharCount(result) # 2
                    THEN [window EXCEPT
                            !.slot_error =
                                Exc("ValueError",
                                    <<"too many values to unpack (expected 2)">>),
                            !.threads[t] = Finished(@)]
                    ELSE IF ~success
                    THEN [window EXCEPT
                            !.box = <<"Error", "Failed to verify checksum: ">>
                                        \o result,
                            !.status_label = <<"Error verifying checksum">>,
                            !.threads[t] = Finished(@)]
                    ELSE [window EXCEPT
                            !.box = <<"Verification Successful",
                                      "The ISO checksum matches the provided value">>,
                            !.status_label = <<"Checksum verification successful">>,
                            !.threads[t] = Finished(@)]
    /\ UNCHANGED outsideWindow

\* MainWindow.handle_create_result(success, result).
HandleCreateResult ==
    /\ \E t \in Threads :
        /\ window.threads[t].op = "create"
        /\ window.threads[t].pc = "emitted"
        /\ LET success == window.threads[t].signal.ok
               result == window.threads[t].signal.msg
               enabled == [window EXCEPT
                            !.create_button = TRUE,
                            !.refresh_button = TRUE,
                            !.browse_button = TRUE,
                            !.download_button = TRUE,
                            !.verify_button = TRUE,
                            !.threads[t] = Finished(@)]
           IN  window' =
                  IF success
                    THEN [enabled EXCEPT
                            !.eject_button = TRUE,
                            !.box = <<"Success", "Bootable drive created successfully!">>,
                            !.status_label = <<"Bootable drive created successfully">>,
                            !.progress_bar = 100]
                    ELSE [enabled EXCEPT
                            !.box = <<"Error", "Failed to create bootable drive: ">>
                                        \o result,
                            !.status_label = <<"Error creating bootable drive">>]
    /\ UNCHANGED outsideWindow

\* Everything but the main window, at rest.
WindowOnly ==
    /\ system = "Linux"
    /\ installed = Tools
    /\ workers = {}
    /\ files = [f \in ScriptFiles |-> NoFile]
    /\ req = [r \in Runs |-> IdleRequest(system)]
    /\ RunsIdle
    /\ DetectorIdle
    /\ HandlerIdle

\* The main window with one worker thread at a time, whatever its fields
\* hold and whether or not a device is listed.
InitWindow ==
    /\ WindowOnly
    /\ \E url \in UrlTexts, path \in IsoPathTexts, sum \in ChecksumTexts,
          n \in {0, 1} :
            window = [WindowIdle EXCEPT !.iso_url_edit = url,
                                        !.iso_path_edit = path,
                                        !.checksum_edit = sum,
                                        !.device_count = n]

\* The main window with two worker threads at a time: a URL, an image and
\* a checksum are entered, a device is listed.
InitWindowConc ==
    /\ WindowOnly
    /\ window = [WindowIdle EXCEPT
            !.iso_url_edit = <<"https://", "mirror.example", "/linux.iso">>,
            !.iso_path_edit = LocalIso,
            !.checksum_edit = LocalIsoChecksum,
            !.device_count = 1,
            !.slots = Threads]

NextWindow ==
    \/ DownloadIso
    \/ StartDownload
    \/ ReceiveChunk
    \/ DownloadBreaks
    \/ WriteFails
    \/ FinishDownload
    \/ ChecksumTask
    \/ VerifyClicked
    \/ VerifyTask
    \/ CreateClicked
    \/ CreateTask
    \/ ThreadComplete
    \/ HandleDownloadResult
    \/ HandleChecksumResult
    \/ HandleVerifyResult
    \/ HandleCreateResult

\* The main window with one worker thread at a time.
SpecWindow == InitWindow /\ [][NextWindow]_vars

\* The main window with worker threads running side by side.
SpecWindowConc == InitWindowConc /\ [][NextWindow]_vars

\* ------------------------------------------------------------------ claims

\* The percentages delivered to the sink of run r, in order.
Pcts(r) == [i \in 1..Len(events[r]) |-> events[r][i].pct]

NonDecreasing(s) == \A i \in 1..(Len(s) - 1) : s[i] <= s[i + 1]

IsPrefix(s, t) == Len(s) <= Len(t) /\ s = SubSeq(t, 1, Len(s))

\* The error-carrying event of the except clause.
IsErrorEvent(e) == e.msg # <<>> /\ e.msg[1] = "Error: "

\* create_bootable_drive has been called and has not yet returned or raised.
InFlight(r) == pc[r] \notin {"idle", "returned", "raised"}

\* create_bootable_drive has returned or raised.
Ended(r) == pc[r] \in {"returned", "raised"}

DriveLetters ==
    {"A", "B", "C", "D", "E", "F", "G", "H", "I", "J", "K", "L", "M",
     "N", "O", "P", "Q", "R", "S", "T", "U", "V", "W", "X", "Y", "Z"}

\* A device path of the platform's syntax (spec, Data Model): a drive letter
\* with a colon on Windows, a path under /dev/ elsewhere.
DevicePathValid(sys, p) ==
    IF sys = "Windows"
        THEN /\ Len(p) \in {2, 3}
             /\ p[1] \in DriveLetters
             /\ p[2] = ":"
             /\ Len(p) = 3 => p[3] = "\\"
        ELSE /\ Len(p) > Len(Dev)
             /\ SubSeq(p, 1, Len(Dev)) = Dev

\* The range the request's persistence size must lie in (the UI's spin box).
MinPersistence == 1
MaxPersistence == 128

\* C1: a request whose device path is not of the host platform's syntax
\* fails before any stage (_prepare_drive, _write_iso, _setup_persistence,
\* _install_bootloader) is invoked.
C1_InvalidDevicePathRunsNoStage ==
    \A r \in Runs :
        (pc[r] # "idle" /\ ~DevicePathValid(system, req[r].device))
            => stageCalls[r] = <<>>

\* C2: a request whose persistence size is outside 1..128 fails in
\* validation: no stage is invoked and no external tool is started.
C2_OutOfRangePersistenceRunsNothing ==
    \A r \in Runs :
        (pc[r] # "idle" /\ req[r].persistence \notin MinPersistence..MaxPersistence)
            => /\ stageCalls[r] = <<>>
               /\ toolLog[r] = <<>>
               /\ pc[r] \in {"validating", "raised"}

\* C3: a request whose image path does not exist fails before stage 1: no
\* stage dispatcher is invoked, no tool is started, no script file is
\* written, and the call raises FileNotFoundError.
C3_MissingImageFailsBeforeStage1 ==
    \A r \in Runs :
        (pc[r] # "idle" /\ req[r].iso \notin ExistingIsos)
            => /\ stageCalls[r] = <<>>
               /\ toolLog[r] = <<>>
               /\ files = [f \in ScriptFiles |-> NoFile]
               /\ pc[r] \in {"validating", "raised"}
               /\ pc[r] = "raised" => exc[r].type = "FileNotFoundError"

\* C3's case: a call with a missing image has ended.
C3_Witness ==
    \E r \in Runs : pc[r] = "raised" /\ req[r].iso \notin ExistingIsos

\* C4: the stages are invoked in the order Prepare, Write Image, Configure
\* Persistence, Install Bootloader: each at most once, none before the one
\* before it has returned, and a call that returns has run all four.
C4_StagesInFixedOrder ==
    \A r \in Runs :
        /\ IsPrefix(stageCalls[r], StageOrder)
        /\ IsPrefix(stageDone[r], stageCalls[r])
        /\ Len(stageCalls[r]) <= Len(stageDone[r]) + 1
        /\ pc[r] = "returned" => stageDone[r] = StageOrder

\* C4's case: a call has returned after its four stages.
C4_Witness ==
    \E r \in Runs : pc[r] = "returned" /\ Len(stageCalls[r]) = 4

\* C5: once a stage has raised, no later stage is invoked in that call, the
\* call ends by raising, and what it raises (and reports to the sink) is the
\* stage's exception with its message.
C5_StageFailureStopsRun ==
    \A r \in Runs :
        stageError[r].stage # "none"
            => /\ stageCalls[r] # <<>>
               /\ Last(stageCalls[r]) = stageError[r].stage
               /\ \A i \in 1..Len(stageDone[r]) : stageDone[r][i] # stageError[r].stage
               /\ pc[r] \in {"except", "raised"}
               /\ pc[r] = "raised"
                    => /\ outcome[r] = "raised"
                       /\ exc[r] = stageError[r].exc
                       /\ req[r].sink
                            => Last(events[r]).msg = <<"Error: ">> \o stageError[r].exc.msg

\* C5's case: the Write Image stage has failed and the call has ended.
C5_Witness ==
    \E r \in Runs :
        /\ pc[r] = "raised"
        /\ stageError[r].stage = "write"
        /\ stageError[r].exc.type = "RuntimeError"
        /\ req[r].sink

\* C6: never are two calls naming the same device path both past the
\* opening of a stage at the same time: the second is turned away.
C6_OneRunPerDevicePath ==
    \A r1, r2 \in Runs :
        (r1 # r2 /\ req[r1].device = req[r2].device /\ InFlight(r1) /\ InFlight(r2))
            => (stageCalls[r1] = <<>> \/ stageCalls[r2] = <<>>)

\* C7: with the runs on different device paths, every diskpart a run
\* starts to partition finds the script there, and the script selects the
\* disk of that run's own drive letter.
C7_RunsOnDistinctDevicesIndependent ==
    \A r \in Runs :
        (/\ \A o \in Runs \ {r} : req[o].device # req[r].device
         /\ DriveLetter(req[r].device) \in Volumes)
            => \A i \in 1..Len(toolLog[r]) :
                   toolLog[r][i].purpose = "prepare"
                       => /\ toolLog[r][i].script.present
                          /\ toolLog[r][i].script.lines[1] =
                                Line("select disk",
                                     VolumeDisk(DriveLetter(req[r].device)), <<>>)

\* C8: in a call that returned, the percentages delivered to the sink are
\* non-decreasing, start at 0 or more and end at exactly 100.
C8_SuccessfulRunProgressMonotone ==
    \A r \in Runs :
        (pc[r] = "returned" /\ req[r].sink)
            => /\ events[r] # <<>>
               /\ NonDecreasing(Pcts(r))
               /\ Pcts(r)[1] >= 0
               /\ Last(Pcts(r)) = 100

\* C8's case: a call on Linux has returned after the copy tool reported.
C8_Witness ==
    \E r \in Runs :
        /\ pc[r] = "returned"
        /\ req[r].sink
        /\ system = "Linux"
        /\ \E i \in 1..Len(events[r]) : events[r][i].msg = <<"Writing ISO...">>

\* C9 as stated: in every call, failing ones included, each percentage is
\* at least every percentage delivered before it.
C9_EveryRunProgressMonotone ==
    \A r \in Runs : NonDecreasing(Pcts(r))

\* C9 as amended: the percentages are non-decreasing up to the terminal
\* error event; the error event comes last and carries percentage 0.
C9_ProgressMonotoneUpToErrorEvent ==
    \A r \in Runs :
        LET n == Len(events[r]) IN
        /\ \A i \in 1..(n - 1) : ~IsErrorEvent(events[r][i])
        /\ \A i \in 1..(n - 1) :
               ~IsErrorEvent(events[r][i + 1]) => events[r][i].pct <= events[r][i + 1].pct
        /\ (n >= 1 /\ IsErrorEvent(events[r][n])) => events[r][n].pct = 0

\* C9's case: a call failed after progress above 0 and reported the error.
C9_Witness ==
    \E r \in Runs :
        /\ pc[r] = "raised"
        /\ Len(events[r]) >= 2
        /\ IsErrorEvent(Last(events[r]))
        /\ events[r][Len(events[r]) - 1].pct > 0

\* C10: a call that was given a sink never ends without a terminal event,
\* the 100% event or an error-carrying event, as the last one delivered.
C10_EndedRunDeliveredTerminalEvent ==
    \A r \in Runs :
        (Ended(r) /\ req[r].sink)
            => /\ events[r] # <<>>
               /\ (Last(events[r]).pct = 100 \/ IsErrorEvent(Last(events[r])))

\* The positions of the error-carrying events among a run's events.
ErrorEvents(r) == {i \in 1..Len(events[r]) : IsErrorEvent(events[r][i])}

FullEvents(r) == {i \in 1..Len(events[r]) : events[r][i].pct = 100}

\* C12: the sink gets the 100% event at most once; when it got it, all four
\* stages have returned and it is the last event of a call that returned;
\* a call that returned delivered it, and a call in which a stage raised or
\* that ended by raising delivered none.
C12_FullProgressOnceAfterAllStages ==
    \A r \in Runs :
        /\ Cardinality(FullEvents(r)) <= 1
        /\ FullEvents(r) # {}
             => /\ stageDone[r] = StageOrder
                /\ FullEvents(r) = {Len(events[r])}
                /\ pc[r] = "returned"
        /\ (pc[r] = "returned" /\ req[r].sink) => FullEvents(r) # {}
        /\ (pc[r] \in {"except", "raised"} \/ stageError[r].stage # "none")
             => FullEvents(r) = {}

\* C12's case: a call with a sink has returned and its worker thread has
\* reported success.
C12_Witness ==
    \E r \in Runs :
        /\ pc[r] = "returned"
        /\ req[r].sink
        /\ FullEvents(r) # {}
        /\ signal[r] = Signal(TRUE, <<"Operation completed successfully">>)

\* The lookup of the disk number has failed in run r.
LookupFailed(r) ==
    /\ stageError[r].stage = "prepare"
    /\ stageError[r].exc.type = "RuntimeError"
    /\ stageError[r].exc.msg[1] = "Could not determine disk number for "

\* C13: on Windows a run whose disk-number lookup failed is failing or has
\* failed and has started no partitioning diskpart; and every partitioning
\* diskpart a run starts comes after a lookup that was handed the run's own
\* drive letter, and its script is there and selects the disk that lookup
\* returned, the disk of that drive letter.
C13_DestructiveScriptOnlyForLookedUpDisk ==
    \A r \in Runs :
        /\ LookupFailed(r)
             => /\ pc[r] \in {"except", "raised"}
                /\ stageDone[r] = <<>>
                /\ \A i \in 1..Len(toolLog[r]) : toolLog[r][i].purpose # "prepare"
        /\ \A i \in 1..Len(toolLog[r]) :
               toolLog[r][i].purpose = "prepare"
                   => /\ \E j \in 1..(i - 1) :
                             /\ toolLog[r][j].purpose = "lookup"
                             /\ toolLog[r][j].script = FileOf(LookupScript(req[r].device))
                      /\ DriveLetter(req[r].device) \in Volumes
                      /\ loc[r].disk_number = VolumeDisk(DriveLetter(req[r].device))
                      /\ toolLog[r][i].script.present
                      /\ toolLog[r][i].script.lines[1]
                             = Line("select disk", loc[r].disk_number, <<>>)

\* The tools a returned call on a platform cannot have done without.
ToolsOnEveryPath(sys) ==
    CASE sys = "Windows" -> {"diskpart"}
      [] sys = "Linux"   -> {"lsblk", "pkexec", "dd"}
      [] OTHER           -> {}

\* C14: no run passes over a tool that it went to start and that is not on
\* the execution path, and no call returns on a host that lacks a tool
\* every run of its platform starts.
C14_MissingToolFailsRun ==
    \A r \in Runs :
        /\ loc[r].skipped = <<>>
        /\ pc[r] = "returned" => ToolsOnEveryPath(system) \subseteq installed

\* C15: when the copy tool exits with a non-zero status, the Write Image
\* stage raises an error whose message is the fixed prefix followed by
\* everything the tool wrote to its error stream.
C15_CopyFailureCarriesDiagnostic ==
    \A r \in Runs :
        (/\ stageError[r].stage = "write"
         /\ stageError[r].exc.type = "RuntimeError"
         /\ loc[r].returncode # 0)
            => stageError[r].exc.msg
                   = <<"Failed to write ISO to drive: ">> \o loc[r].written

\* What a dispatcher raises on a platform without a strategy.
UnsupportedPlatform == Exc("NotImplementedError", <<"Unsupported operating system: ", system>>)

\* C16: on a platform without a strategy no run starts a tool, writes a
\* script file, enters a stage body or completes a stage; no call returns;
\* and a call whose image exists ends by raising the unsupported-platform
\* error out of the first dispatcher, which the worker thread reports.
C16_UnsupportedPlatformFailsBeforeAnyTool ==
    system \notin {"Windows", "Darwin", "Linux"}
        => /\ \A f \in ScriptFiles : files[f] = NoFile
           /\ \A r \in Runs :
                /\ toolLog[r] = <<>>
                /\ stageDone[r] = <<>>
                /\ pc[r] \in {"idle", "validating", "begin", "step_prepare",
                               "except", "raised"}
                /\ (pc[r] = "raised" /\ InputsValid(req[r]))
                     => /\ exc[r] = UnsupportedPlatform
                        /\ stageError[r] = [stage |-> "prepare", exc |-> UnsupportedPlatform]
                        /\ signal[r].sent => signal[r] = Signal(FALSE, UnsupportedPlatform.msg)

\* C16's case: on a platform without a strategy a call has ended with the
\* unsupported-platform error and the worker thread has reported it.
C16_Witness ==
    /\ system = "Other"
    /\ \E r \in Runs :
        /\ pc[r] = "raised"
        /\ exc[r].type = "NotImplementedError"
        /\ signal[r].sent

\* The state of the run's state machine that a position of the call lies in.
Phase(p) ==
    CASE p = "idle" -> "Idle"
      [] p \in {"validating", "begin"} -> "Validating"
      [] p \in {"step_prepare", "get_windows_disk_number", "lookup_run",
                "lookup_cleanup", "prepare_drive_windows", "prepare_emit",
                "prepare_run", "prepare_cleanup", "prepare_drive_macos",
                "get_linux_partitions", "unmount_all_partitions"} -> "Preparing"
      [] p \in {"step_write", "write_iso_placeholder", "write_iso_linux",
                "popen", "read_stderr"} -> "WritingImage"
      [] p \in {"step_persistence", "setup_persistence"} -> "ConfiguringPersistence"
      [] p \in {"step_bootloader", "install_bootloader", "finish"} -> "InstallingBootloader"
      [] p = "returned" -> "Completed"
      [] p \in {"except", "raised"} -> "Failed"

PhaseOrder ==
    <<"Idle", "Validating", "Preparing", "WritingImage", "ConfiguringPersistence",
      "InstallingBootloader", "Completed">>

\* The place of a state other than Failed in the forward order.
PhaseRank(ph) == CHOOSE i \in 1..Len(PhaseOrder) : PhaseOrder[i] = ph

\* C17: every step of a run either stays in its state, or goes from a
\* non-terminal state to the next state of the forward order or to Failed;
\* a run in Completed or Failed stays there and nothing more is delivered,
\* invoked or started in it (a further call of create_bootable_drive, made
\* by a new worker thread after the signal, is a new run and starts at
\* Validating).
C17_RunMovesOnlyForward ==
    [][\A r \in Runs :
         LET a == Phase(pc[r])
             b == Phase(pc'[r])
         IN  IF a \in {"Completed", "Failed"}
               THEN \/ /\ b = a
                       /\ pc[r] \in {"returned", "raised"}
                            => /\ pc'[r] = pc[r]
                               /\ events'[r] = events[r]
                               /\ stageCalls'[r] = stageCalls[r]
                               /\ toolLog'[r] = toolLog[r]
                    \/ /\ signal[r].sent
                       /\ pc'[r] = "validating"
                       /\ events'[r] = <<>> /\ stageCalls'[r] = <<>>
               ELSE \/ b = a
                    \/ b = "Failed"
                    \/ PhaseRank(b) = PhaseRank(a) + 1
      ]_vars

\* C17's case: a run on Windows has gone through every state to Completed,
\* having started diskpart twice on the way.
C17_Witness ==
    \E r \in Runs :
        /\ Phase(pc[r]) = "Completed"
        /\ system = "Windows"
        /\ Len(toolLog[r]) = 2
        /\ stageDone[r] = StageOrder

\* The progress band of each stage.
Band(stage) ==
    CASE stage = "prepare"     -> 0..30
      [] stage = "write"       -> 30..70
      [] stage = "persistence" -> 70..90
      [] stage = "bootloader"  -> 90..100

\* A stage of run r has been entered and has neither returned nor raised.
Executing(r) ==
    /\ Len(stageCalls[r]) > Len(stageDone[r])
    /\ pc[r] \notin {"except", "raised"}

\* Run r enters a stage in this step.
EntersStage(r) == stageCalls'[r] # <<>> /\ stageCalls'[r] # stageCalls[r]

\* C18: every step that enters a stage delivers one event to the sink, and
\* its percentage lies in the band of that stage; every event delivered
\* while a stage is executing has its percentage in the band of that stage.
\* (The events outside the stages, the opening 0%, the closing 100% and the
\* error event of the except clause, are not bound by a band.)
C18_StageEventsWithinBand ==
    [][\A r \in Runs :
         /\ (EntersStage(r) /\ req[r].sink)
              => /\ Len(events'[r]) = Len(events[r]) + 1
                 /\ Last(events'[r]).pct \in Band(Last(stageCalls'[r]))
         /\ (Executing(r) /\ Len(events'[r]) > Len(events[r]))
              => Last(events'[r]).pct \in Band(Last(stageCalls[r]))
      ]_vars

\* C18's case: a stage body has reported while it executes: the formatting
\* event of Prepare on Windows, or a dd report of Write Image on Linux.
C18_Witness ==
    \E r \in Runs :
        /\ req[r].sink
        /\ Executing(r)
        /\ \/ system = "Windows" /\ Last(stageCalls[r]) = "prepare"
                                  /\ Last(events[r]).pct = FormattingPct
           \/ system = "Linux" /\ Last(stageCalls[r]) = "write"
                                /\ Last(events[r]).pct = DdProgressPct

\* The tool runs that destroy what is on the target: diskpart on the
\* partitioning script (clean, convert, create, format) and the copy.
Destructive(run) == run.purpose \in {"prepare", "copy"}

\* The tool runs of the unmounting: the listing of the target's partitions
\* and the unmounting of one of them.
Unmounting(run) == run.purpose \in {"list", "unmount"}

\* C19: on every platform, before a run starts a tool that destroys what is
\* on the target it has gone through the unmounting of the target's
\* partitions: each destructive tool run comes after a tool run of the
\* unmounting.
C19_UnmountBeforeDestructive ==
    \A r \in Runs :
        \A i \in 1..Len(toolLog[r]) :
            Destructive(toolLog[r][i])
                => \E j \in 1..(i - 1) : Unmounting(toolLog[r][j])

\* The disk of the inventory a Linux descriptor's partition lies on is
\* internal: not flagged removable and not on the USB bus, or not to be
\* found out.
LinuxDiskInternal(d) ==
    d.sysfs.raises \/ (d.sysfs.removable # "1" /\ ~d.sysfs.usb)

\* The descriptor is one for the host's system drive: on Windows the drive
\* of the SystemDrive letter, elsewhere the volume mounted at "/".
SystemDescriptor(d) ==
    IF system = "Windows"
        THEN Upper(d.path[1]) = Upper(inventory.system_drive[1])
        ELSE d.mountpoint = "/"

\* The descriptor is one for an internal drive: on Windows a volume that
\* neither tool calls removable or external, on Linux a partition of an
\* internal disk; diskutil is asked for external disks only.
InternalDescriptor(d) ==
    CASE system = "Windows" ->
            \E i \in 1..Len(inventory.entries) :
                LET p == inventory.entries[i] IN
                /\ p.device = d.mountpoint
                /\ ~WindowsDriveInfo(p).removable
                /\ ~WindowsDriveInfo(p).external
      [] system = "Linux" ->
            \E i \in 1..Len(inventory.entries) :
                LET e == inventory.entries[i] IN
                /\ StartsWith(d.path, Dev \o e.name)
                /\ LinuxDiskInternal(e)
      [] OTHER -> FALSE

\* C20: no descriptor that get_external_devices has collected is one for
\* the host's system drive or for an internal drive; on Linux a disk whose
\* status could not be found out counts as internal.
C20_NoSystemOrInternalDriveListed ==
    \A i \in 1..Len(devices) :
        /\ ~SystemDescriptor(devices[i])
        /\ ~InternalDescriptor(devices[i])

\* C21: a run whose device path is the device the host's own system is on
\* is turned away by create_bootable_drive: no stage is invoked for it and
\* it starts no tool that destroys what is on the target.
C21_SystemDeviceRejected ==
    \A r \in Runs :
        (pc[r] # "idle" /\ req[r].device = SystemDevice(system))
            => /\ stageCalls[r] = <<>>
               /\ \A i \in 1..Len(toolLog[r]) : ~Destructive(toolLog[r][i])

\* Run r has started the copy tool.
CopyStarted(r) == \E i \in 1..Len(toolLog[r]) : toolLog[r][i].purpose = "copy"

\* The copy tool of run r has exited: the run has left the loop over the
\* tool's error stream and has waited for the process.
CopyExited(r) == CopyStarted(r) /\ pc[r] # "read_stderr"

\* Write Image of run r has reported completion: its completion event was
\* delivered, or the stage after it was entered.
WriteCompletionReported(r) ==
    \/ \E i \in 1..Len(events[r]) :
            events[r][i] = Event(DdDonePct, <<"ISO written successfully">>)
    \/ \E i \in 1..Len(stageCalls[r]) : stageCalls[r][i] = "persistence"

CopyProgressEvents(r) ==
    {i \in 1..Len(events[r]) :
        events[r][i] = Event(DdProgressPct, <<"Writing ISO...">>)}

\* The number of lines of the copy tool that run r has read.
LinesRead(r) == Len(loc[r].written) - Len(loc[r].unread)

\* C23: for every line the copy tool has written and Write Image has read,
\* whether or not it parses as a progress report, a progress event has been
\* forwarded to the sink, and no line makes the write stage raise while the
\* tool is still running.
C23_EveryLineForwarded ==
    \A r \in Runs :
        (CopyStarted(r) /\ req[r].sink)
            => /\ Cardinality(CopyProgressEvents(r)) = LinesRead(r)
               /\ stageError[r].stage = "write" => CopyExited(r)

\* A soft condition has occurred in the Prepare stage of run r: the listing
\* of the partitions has exited with a status other than 0, or the unmounting
\* of a partition has.
SoftCondition(r) ==
    \/ loc[r].list_status # 0
    \/ \E i \in 1..Len(loc[r].unmount_status) : loc[r].unmount_status[i] # 0

\* C24: when the listing of the partitions exits with a status other than 0,
\* or the unmounting of a partition fails, Prepare goes on (it is still at
\* its unmounting or has returned) and the run has not failed in Prepare.
C24_SoftConditionsAbsorbed ==
    \A r \in Runs :
        SoftCondition(r)
            => /\ stageError[r].stage # "prepare"
               /\ \/ pc[r] = "unmount_all_partitions"
                  \/ \E i \in 1..Len(stageDone[r]) : stageDone[r][i] = "prepare"

C24_Witness ==
    \E r \in Runs :
        /\ \E i \in 1..Len(loc[r].unmount_status) : loc[r].unmount_status[i] # 0
        /\ pc[r] = "returned"
        /\ outcome[r] = "returned"

C26_EveryCallStartsAtStageOne ==
    \A r \in Runs :
        pc[r] # "idle"
            => /\ IsPrefix(stageCalls[r], StageOrder)
               /\ events[r] # <<>>
                    => events[r][1] = Event(StartPct, <<"Starting bootable drive creation...">>)
               /\ pc[r] \in {"validating", "begin"}
                    => \A f \in ScriptFiles : ~files[f].present

C26_Witness ==
    \E r \in Runs :
        /\ loc[r].previous = "raised"
        /\ req[r].sink
        /\ pc[r] = "returned"
        /\ stageCalls[r] = StageOrder

\* C27: verify_checksum returns True exactly when the checksum of the file
\* equals the expected one once that is stripped of surrounding whitespace
\* and put in lower case; it returns True for a checksum calculate_checksum
\* has returned for the file; and every computation of the checksum of the
\* file gives the same digest.
C27_VerifyAgreesWithCalculate ==
    /\ (hashing.pc = "returned" /\ hashing.op = "verify")
            => /\ hashing.match
                    = (Sha256Of(isoFile.bytes) = lower(strip(hashing.given)))
               /\ hashing.given \in hashing.computed => hashing.match
    /\ hashing.pc = "returned" => hashing.computed = {Sha256Of(isoFile.bytes)}

C27_Witness ==
    /\ hashing.pc = "returned"
    /\ hashing.op = "verify"
    /\ hashing.match
    /\ hashing.given # hashing.expected_checksum
    /\ Len(isoFile.bytes) > BlockSize

\* The partitions the Prepare stage of run r has had created, in order: the
\* label and the size (MB; 0 for the rest of the disk) of each, read off the
\* scripts the partitioning tool was started on.
RECURSIVE PartitionsIn(_)
PartitionsIn(lines) ==
    IF Len(lines) < 2
        THEN <<>>
        ELSE IF /\ lines[1].cmd \in {"create partition primary size=",
                                      "create partition primary"}
                /\ lines[2].cmd \in {"format quick fs=fat32 label=",
                                      "format quick fs=ntfs label="}
            THEN <<[label |-> lines[2].txt, size |-> lines[1].num]>>
                     \o PartitionsIn(Tail(Tail(lines)))
            ELSE PartitionsIn(Tail(lines))

RECURSIVE PartitionsOfRuns(_)
PartitionsOfRuns(log) ==
    IF log = <<>>
        THEN <<>>
        ELSE (IF Head(log).purpose = "prepare"
                  THEN PartitionsIn(Head(log).script.lines)
                  ELSE <<>>) \o PartitionsOfRuns(Tail(log))

PartitionsCreated(r) == PartitionsOfRuns(toolLog[r])

\* C28: once Prepare has returned, the target has a boot partition, and it
\* is at least as large as the image of the request.
C28_BootPartitionHoldsImage ==
    \A r \in Runs :
        (\E i \in 1..Len(stageDone[r]) : stageDone[r][i] = "prepare")
            => \E i \in 1..Len(PartitionsCreated(r)) :
                    /\ PartitionsCreated(r)[i].label = <<"LINUX_BOOT">>
                    /\ PartitionsCreated(r)[i].size >= IsoSizeMB(req[r].iso)

\* C29: on every platform, once Prepare has returned, the target has a
\* persistence partition of the requested number of GB times 1024 MB, and it
\* was created after the boot partition and before the data partition that
\* takes the rest.
C29_PersistencePartitionAsRequested ==
    \A r \in Runs :
        (\E i \in 1..Len(stageDone[r]) : stageDone[r][i] = "prepare")
            => \E i, j, k \in 1..Len(PartitionsCreated(r)) :
                    /\ i < j /\ j < k
                    /\ PartitionsCreated(r)[i].label = <<"LINUX_BOOT">>
                    /\ PartitionsCreated(r)[j].label = <<"PERSISTENCE">>
                    /\ PartitionsCreated(r)[j].size = req[r].persistence * 1024
                    /\ PartitionsCreated(r)[k].label = <<"DATA">>

\* C30: once the result of a download has been handled as a success, the
\* ISO path field holds the path the download task returned.
C30_PathFieldHoldsDownloadedPath ==
    window.download.succeeded
        => window.iso_path_edit = window.download.returned

\* C31: a call of create_bootable_drive that has ended has given its caller
\* a value: True when every stage was done, False when the run failed.  It
\* has not ended by raising.
C31_FailedRunReturnsFalse ==
    \A r \in Runs :
        Ended(r) =>
            \/ outcome[r] = "returned" /\ stageDone[r] = StageOrder
            \/ outcome[r] = "returned False" /\ stageDone[r] # StageOrder

\* C32: once download_iso has failed after it had opened the destination
\* file, there is no file at the destination path, and the failure has gone
\* on to the caller (the worker thread reports it, never a success).
C32_NoPartialFileAfterFailure ==
    \A t \in Threads :
        (/\ window.threads[t].op = "download"
         /\ window.threads[t].opened
         /\ window.threads[t].exc # NoExc)
            => /\ window.threads[t].path \notin window.saved
               /\ window.threads[t].pc \in {"raised", "emitted"}
               /\ window.threads[t].signal.sent => ~window.threads[t].signal.ok

\* A provisioning run started from the main window is in flight in thread
\* t: its worker was started and its completion handler has not yet run.
CreateInFlight(t) ==
    /\ window.threads[t].op = "create"
    /\ window.threads[t].pc \in {"started", "returned", "raised", "emitted"}

\* C33: while a provisioning run started from the main window is in flight
\* the create button is disabled, and no second such run is in flight
\* beside it.
C33_CreateButtonDisabledWhileRunning ==
    /\ (\E t \in Threads : CreateInFlight(t)) => ~window.create_button
    /\ Cardinality({t \in Threads : CreateInFlight(t)}) <= 1

\* C34: the percentages download_iso hands to its progress callback lie
\* within 0..100 and never decrease, and a download that has returned ended
\* its events with the 100 of the completion, whatever the declared
\* content length and the number of bytes received.
C34_DownloadPercentagesBoundedMonotonic ==
    \A t \in Threads :
        window.threads[t].op = "download" =>
            LET pcts == window.threads[t].pcts IN
            /\ \A i \in 1..Len(pcts) : pcts[i] \in 0..100
            /\ \A i \in 1..Len(pcts) : \A j \in i..Len(pcts) : pcts[i] <= pcts[j]
            /\ window.threads[t].pc = "returned" =>
                    /\ pcts # <<>>
                    /\ pcts[Len(pcts)] = 100

\* The completion handler of thread t runs on a verification whose
\* operation returned without raising.
HandlesCompletedVerify(t) ==
    /\ window.threads[t].op = "verify"
    /\ window.threads[t].pc = "emitted"
    /\ window.threads[t].signal.ok
    /\ window'.threads[t].pc = "done"

\* C35: the completion handler of a verification that returned without
\* raising does not fail, and it reports 'verification successful' exactly
\* when the calculated checksum equals the one the user gave, and
\* 'verification failed' with the calculated checksum otherwise.
C35_VerifyResultReported ==
    [][\A t \in Threads :
        HandlesCompletedVerify(t) =>
            LET verified == window.threads[t].returned[1]
                calculated == window.threads[t].returned[2]
            IN  /\ window'.slot_error = NoExc
                /\ verified =>
                        window'.status_label = <<"Checksum verification successful">>
                /\ ~verified =>
                        /\ window'.status_label = <<"Checksum verification failed">>
                        /\ \E i \in 1..Len(window'.box) :
                                SubSeq(window'.box, i, i + Len(calculated) - 1)
                                    = calculated]_vars

\* Run r is inside _get_windows_disk_number, between the writing of its
\* script and the end of the finally clause.
InsideLookup(r) == pc[r] \in {"lookup_run", "lookup_cleanup"}

\* Run r is inside _prepare_drive_windows, between the writing of its script
\* and the end of the finally clause.
InsidePrepare(r) == pc[r] \in {"prepare_emit", "prepare_run", "prepare_cleanup"}

StartedOf(tool) ==
    {i \in 1..Len(ejecting.started) : ejecting.started[i].tool = tool}

\* C37: on Linux eject is started only after umount exited with zero; a call
\* whose umount failed returns False with no eject started; and a call
\* returns True only when umount and eject both exited with zero.
C37_EjectOnlyAfterUnmount ==
    system = "Linux" =>
        /\ \A i \in StartedOf("eject") :
                \E j \in StartedOf("umount") :
                    j < i /\ ejecting.started[j].returncode = 0
        /\ (/\ ejecting.pc = "returned"
            /\ \E j \in StartedOf("umount") : ejecting.started[j].returncode # 0)
                => ejecting.result = "False" /\ StartedOf("eject") = {}
        /\ ejecting.result = "True" =>
                /\ ejecting.pc = "returned"
                /\ \E j \in StartedOf("umount") : ejecting.started[j].returncode = 0
                /\ \E i \in StartedOf("eject") : ejecting.started[i].returncode = 0

\* A call on Linux has returned True after umount and eject both ran.
C37_Witness ==
    /\ system = "Linux"
    /\ ejecting.pc = "returned"
    /\ ejecting.result = "True"
    /\ ejecting.started = <<Started("umount", 0), Started("eject", 0)>>

\* The text, its whitespace stripped, begins with a number: a digit, or a
\* point and a digit.
StartsWithNumber(size_str) ==
    LET s == strip(size_str) IN
    /\ s # <<>>
    /\ \/ s[1] \in DigitSet
       \/ s[1] = "." /\ Len(s) >= 2 /\ s[2] \in DigitSet

\* C38: a byte count that is a whole number of KB or more, formatted and
\* parsed again, gives the byte count; and _parse_size returns 0 for a text
\* that does not begin with a number.
C38_SizeRoundTrip ==
    /\ (/\ sizing.pc = "parsed"
        /\ sizing.formatted # <<>>
        /\ sizing.size_str = sizing.formatted
        /\ sizing.size_bytes >= 1024
        /\ sizing.size_bytes % 1024 = 0)
            => sizing.parsed = sizing.size_bytes
    /\ (/\ sizing.pc \in {"parsed", "raised"}
        /\ ~StartsWithNumber(sizing.size_str))
            => sizing.pc = "parsed" /\ sizing.parsed = 0

====
